---- MODULE Spec2Model ----
(***************************************************************************)
(* BB84 protocol engine of ncrypt (src/ncrypt/core/qkd.py), its quantum    *)
(* simulator and its encryption layer.                                     *)
(*                                                                         *)
(* Spec          one call of BB84Protocol.run_protocol, stage by stage.    *)
(* SpecSift      one call of BB84Protocol.sift_keys on arbitrary inputs.   *)
(* SpecEstimate  one call of BB84Protocol.estimate_error_rate.             *)
(* SpecAmplify   one call of BB84Protocol.privacy_amplification.           *)
(* SpecMeasure   one call of BB84Protocol.measure_qubits or of             *)
(*               QuantumSimulator.simulate_qkd_exchange                    *)
(*               (src/ncrypt/simulator/quantum_simulator.py).              *)
(* SpecEncryption  calls of QuantumEncryption                              *)
(*               (src/ncrypt/core/encryption.py): one call, or an          *)
(*               encryption followed by a decryption.                      *)
(* SpecKeys      calls of KeyManager (src/ncrypt/utils/key_manager.py) on  *)
(*               one storage directory.                                    *)
(* SpecTransactions  calls of DAPOAFramework                               *)
(*               (src/ncrypt/transactions/privacy_modes.py).               *)
(* SpecBraket    one call of BraketQKD.run_bb84                            *)
(*               (src/ncrypt/braket/quantum_backend.py).                   *)
(*                                                                         *)
(* Python lists and numpy arrays are sequences; Python indices are 0-based *)
(* and are kept 0-based as values (element i of a list x is x[i + 1]).     *)
(* A Python float that is only compared is a pair <<num, den>>, den > 0;   *)
(* a float that is multiplied is an IEEE-754 double, see IntOfProduct.     *)
(***************************************************************************)
EXTENDS Integers, Sequences, FiniteSets, TLC

VARIABLES
    pc,                  \* stage of run_protocol
    visited,             \* stages passed so far, oldest first
    raised,              \* "" or the exception that left run_protocol
    n_bits, noise_level, check_sample_ratio,   \* arguments of run_protocol
    error_threshold,     \* self.error_threshold
    alice_bits, alice_bases, qubits, bob_bases, bob_bits,
    alice_sifted, bob_sifted,
    sample_size, check_indices,
    error_rate, alice_final, bob_final,
    final_key,
    result,              \* the value returned by run_protocol
    args, ret,           \* arguments and outcome of a single function call
    files                \* the file system: path -> <<>> or <<content>>

vars == <<pc, visited, raised, n_bits, noise_level, check_sample_ratio,
          error_threshold, alice_bits, alice_bases, qubits, bob_bases,
          bob_bits, alice_sifted, bob_sifted, sample_size, check_indices,
          error_rate, alice_final, bob_final, final_key, result, args, ret, files>>

----------------------------------------------------------------------------
(* Bounds *)

MaxBits == 3

MaxSiftLen == 3

MaxKeyLen == 4

MaxAmpLen == 6

LongKeyLen == 90

MaxExchange == 2

----------------------------------------------------------------------------
(* Values *)

Bit == {0, 1}

RECTILINEAR == 0

DIAGONAL == 1

Basis == {RECTILINEAR, DIAGONAL}

BitSeqs(n) == [1..n -> Bit]

\* A call returns a value or raises an exception.
Return(v) == [raised |-> "", value |-> <<v>>]

Raise(exception) == [raised |-> exception, value |-> <<>>]

BitSeqsUpTo(n) == UNION {BitSeqs(k) : k \in 0..n}

\* Comparison of two floats given as <<num, den>> with den > 0.
Gt(a, b) == a[1] * b[2] > b[1] * a[2]

Leq(a, b) == a[1] * b[2] <= b[1] * a[2]

----------------------------------------------------------------------------
(* IEEE-754 doubles: [neg, m, e] is the value (-1)^neg * m * 2^(-e), m a   *)
(* significand of at most 53 bits written least significant bit first.     *)

Nibbles(nib, k) == [i \in 1..(4 * k) |-> nib[((i - 1) % 4) + 1]]

\* 0.7 = 0x1.6666666666666p-1
Double_0_7 == [neg |-> FALSE, m |-> Nibbles(<<0, 1, 1, 0>>, 13) \o <<1>>, e |-> 53]

Double_0_5 == [neg |-> FALSE, m |-> <<1>>, e |-> 1]

Double_0_25 == [neg |-> FALSE, m |-> <<1>>, e |-> 2]

Double_1_0 == [neg |-> FALSE, m |-> <<1>>, e |-> 0]

Double_2_0 == [neg |-> FALSE, m |-> <<0, 1>>, e |-> 0]

Double_0_0 == [neg |-> FALSE, m |-> <<>>, e |-> 0]

Double_m0_5 == [neg |-> TRUE, m |-> <<1>>, e |-> 1]

RECURSIVE MulBits(_, _, _)
\* bits * n + carry, all least significant bit first
MulBits(bits, n, carry) ==
    IF bits = <<>>
    THEN IF carry = 0 THEN <<>>
         ELSE <<carry % 2>> \o MulBits(<<>>, n, carry \div 2)
    ELSE LET t == n * Head(bits) + carry
         IN  <<t % 2>> \o MulBits(Tail(bits), n, t \div 2)

RECURSIVE BitsToInt(_)
BitsToInt(bits) ==
    IF bits = <<>> THEN 0 ELSE Head(bits) + 2 * BitsToInt(Tail(bits))

\* Round an exact product to 53 significant bits, ties to even.
RoundToDouble(p) ==
    IF Len(p) <= 53 THEN p
    ELSE LET s      == Len(p) - 53
             q      == SubSeq(p, s + 1, Len(p))
             guard  == p[s]
             sticky == \E i \in 1..(s - 1) : p[i] = 1
             up     == guard = 1 /\ (sticky \/ q[1] = 1)
         IN  [i \in 1..s |-> 0] \o (IF up THEN MulBits(q, 1, 1) ELSE q)

\* int(n * x) for an int n >= 0 and a double x: the product is rounded to
\* the nearest double, then truncated toward zero.
RoundedProduct(n, x) ==
    IF n = 0 \/ x.m = <<>> THEN 0
    ELSE LET r   == RoundToDouble(MulBits(x.m, n, 0))
             mag == IF Len(r) > x.e THEN BitsToInt(SubSeq(r, x.e + 1, Len(r))) ELSE 0
         IN  IF x.neg THEN 0 - mag ELSE mag

RECURSIVE ProductsFrom(_, _, _)
ProductsFrom(n, last, x) ==
    IF n > last THEN <<>> ELSE <<RoundedProduct(n, x)>> \o ProductsFrom(n + 1, last, x)

\* int(n * 0.7) for n = 0 .. 2 * MaxAmpLen, computed once.
Products_0_7 == ProductsFrom(0, 2 * MaxAmpLen, Double_0_7)

IntOfProduct(n, x) ==
    IF x = Double_0_7 /\ n < Len(Products_0_7)
    THEN Products_0_7[n + 1]
    ELSE RoundedProduct(n, x)

----------------------------------------------------------------------------
(* Arithmetic of doubles: every operation computes the exact result on the *)
(* significands and rounds it to 53 bits, ties to even.  Results are       *)
(* normalised (odd significand, zero as Double_0_0, no negative zero), so  *)
(* that two results are equal as records iff they are equal as numbers.    *)
(* The exact arithmetic works on limbs: a natural number is a sequence of  *)
(* digits in base 2^13, least significant first.                           *)

Base == 2^13

Zeros(k) == [i \in 1..k |-> 0]

Highest(S) == CHOOSE i \in S : \A j \in S : j <= i

\* drop the zero digits above the most significant non-zero one
StripHigh(a) ==
    LET nz == {i \in 1..Len(a) : a[i] # 0}
    IN  IF nz = {} THEN <<>> ELSE SubSeq(a, 1, Highest(nz))

ToLimbs(bits) ==
    [k \in 1..((Len(bits) + 12) \div 13) |->
        BitsToInt(SubSeq(bits, 13 * (k - 1) + 1,
                         IF 13 * k < Len(bits) THEN 13 * k ELSE Len(bits)))]

ToBits(limbs) ==
    StripHigh([i \in 1..(13 * Len(limbs)) |->
                  (limbs[((i - 1) \div 13) + 1] \div 2^((i - 1) % 13)) % 2])

\* Digit i of a, zero above its length.
At(a, i) == IF i <= Len(a) THEN a[i] ELSE 0

\* a + b: position i receives a carry iff some lower position overflows
\* and every position between passes the carry on.
LAdd(a, b) ==
    LET n       == 1 + (IF Len(a) > Len(b) THEN Len(a) ELSE Len(b))
        carry(i) == \E j \in 1..(i - 1) :
                        /\ At(a, j) + At(b, j) >= Base
                        /\ \A k \in (j + 1)..(i - 1) : At(a, k) + At(b, k) = Base - 1
    IN  [i \in 1..n |->
            (At(a, i) + At(b, i) + (IF carry(i) THEN 1 ELSE 0)) % Base]

\* a - b for a >= b: position i lends iff some lower position of a is
\* smaller than b's and every position between is equal.
LSub(a, b) ==
    LET borrow(i) == \E j \in 1..(i - 1) :
                         /\ At(a, j) < At(b, j)
                         /\ \A k \in (j + 1)..(i - 1) : At(a, k) = At(b, k)
    IN  [i \in 1..Len(a) |->
            (At(a, i) - At(b, i) - (IF borrow(i) THEN 1 ELSE 0)) % Base]

LGeq(a, b) ==
    LET n    == IF Len(a) > Len(b) THEN Len(a) ELSE Len(b)
        A    == a \o Zeros(n - Len(a))
        B    == b \o Zeros(n - Len(b))
        diff == {i \in 1..n : A[i] # B[i]}
    IN  diff = {} \/ A[Highest(diff)] > B[Highest(diff)]

RECURSIVE LMulSmall(_, _, _)
\* a * n + carry for a single digit n
LMulSmall(a, n, carry) ==
    IF a = <<>>
    THEN IF carry = 0 THEN <<>> ELSE <<carry>>
    ELSE LET t == n * Head(a) + carry
         IN  <<t % Base>> \o LMulSmall(Tail(a), n, t \div Base)

RECURSIVE LMul(_, _)
LMul(a, b) ==
    IF a = <<>> THEN <<>>
    ELSE LAdd(LMulSmall(b, Head(a), 0), <<0>> \o LMul(Tail(a), b))

RECURSIVE QuotientDigit(_, _, _, _)
\* the largest digit q in lo..hi with d * q <= r, by bisection
QuotientDigit(r, d, lo, hi) ==
    IF lo = hi THEN lo
    ELSE LET mid == (lo + hi + 1) \div 2
         IN  IF LGeq(r, LMulSmall(d, mid, 0))
             THEN QuotientDigit(r, d, mid, hi)
             ELSE QuotientDigit(r, d, lo, mid - 1)

RECURSIVE LDivLoop(_, _, _, _, _)
\* Long division from digit i of n downwards, the remainder r < d taking
\* the next digit of the dividend at each step.
LDivLoop(n, i, d, q, r) ==
    IF i = 0 \/ q = <<Base>> THEN [q |-> q, r |-> r]
    ELSE LET r2 == StripHigh(<<n[i]>> \o r)
             qd == QuotientDigit(r2, d, 0, Base - 1)
         IN  LDivLoop(n, i - 1, d, <<qd>> \o q,
                      StripHigh(LSub(r2, LMulSmall(d, qd, 0))))

\* quotient and remainder of n by d > 0
LDivMod(n, d) == LDivLoop(n, Len(n), d, <<>>, <<>>)

\* Round a significand to 53 bits, ties to even.
RoundNearestEven(p) ==
    IF Len(p) <= 53 THEN p
    ELSE LET s      == Len(p) - 53
             q      == SubSeq(p, s + 1, Len(p))
             up     == p[s] = 1 /\ (q[1] = 1 \/ \E i \in 1..(s - 1) : p[i] = 1)
             zeros  == {i \in 1..53 : q[i] = 0}
             z      == IF zeros = {} THEN 54
                       ELSE CHOOSE i \in zeros : \A j \in zeros : i <= j
         IN  Zeros(s) \o (IF up THEN [i \in 1..(IF z = 54 THEN 54 ELSE 53) |->
                                        IF i < z THEN 0 ELSE IF i = z THEN 1 ELSE q[i]]
                          ELSE q)

Normalised(neg, m, e) ==
    LET ones == {i \in 1..Len(m) : m[i] = 1}
        low  == CHOOSE i \in ones : \A j \in ones : i <= j
    IN  IF ones = {} THEN Double_0_0
        ELSE [neg |-> neg, m |-> SubSeq(m, low, Highest(ones)), e |-> e - (low - 1)]

Rounded(neg, m, e) == Normalised(neg, RoundNearestEven(StripHigh(m)), e)

DMul(x, y) ==
    IF x.m = <<>> \/ y.m = <<>> THEN Double_0_0
    ELSE Rounded(x.neg # y.neg, ToBits(LMul(ToLimbs(x.m), ToLimbs(y.m))), x.e + y.e)

DAdd(x, y) ==
    IF x.m = <<>> THEN Normalised(y.neg, y.m, y.e)
    ELSE IF y.m = <<>> THEN Normalised(x.neg, x.m, x.e)
    ELSE LET e  == IF x.e > y.e THEN x.e ELSE y.e
             mx == ToLimbs(Zeros(e - x.e) \o x.m)
             my == ToLimbs(Zeros(e - y.e) \o y.m)
         IN  IF x.neg = y.neg THEN Rounded(x.neg, ToBits(LAdd(mx, my)), e)
             ELSE IF LGeq(mx, my) THEN Rounded(x.neg, ToBits(LSub(mx, my)), e)
             ELSE Rounded(y.neg, ToBits(LSub(my, mx)), e)

\* x / y for y # 0: 56 or more quotient bits, and one more bit below them
\* that says whether the division left a remainder.
DDiv(x, y) ==
    IF x.m = <<>> THEN Double_0_0
    ELSE LET k  == IF Len(y.m) > Len(x.m) THEN 56 + Len(y.m) - Len(x.m) ELSE 56
             qr == LDivMod(ToLimbs(Zeros(k) \o x.m), ToLimbs(y.m))
         IN  Rounded(x.neg # y.neg,
                     <<IF qr.r = <<>> THEN 0 ELSE 1>> \o ToBits(qr.q),
                     k + 1 + x.e - y.e)

DNeg(x) == IF x.m = <<>> THEN x ELSE [x EXCEPT !.neg = ~x.neg]

DSub(x, y) == DAdd(x, DNeg(y))

\* a with digit i replaced by q
SetDigit(a, i, q) == [j \in 1..Len(a) |-> IF j = i THEN q ELSE a[j]]

RECURSIVE RootDigit(_, _, _, _, _)
\* the largest digit q in lo..hi that leaves root, with digit i set to q,
\* a number whose square is at most n, by bisection
RootDigit(root, i, n, lo, hi) ==
    IF lo = hi THEN lo
    ELSE LET mid == (lo + hi + 1) \div 2
             c   == SetDigit(root, i, mid)
         IN  IF LGeq(n, LMul(c, c))
             THEN RootDigit(root, i, n, mid, hi)
             ELSE RootDigit(root, i, n, lo, mid - 1)

RECURSIVE LSqrtLoop(_, _, _)
LSqrtLoop(root, i, n) ==
    IF i = 0 THEN root
    ELSE LSqrtLoop(SetDigit(root, i, RootDigit(root, i, n, 0, Base - 1)), i - 1, n)

\* floor of the square root of n
LSqrt(n) == LSqrtLoop(Zeros((Len(n) + 1) \div 2), (Len(n) + 1) \div 2, n)

\* sqrt(x) for x > 0: the significand is shifted to 110 or more bits and
\* an even exponent, so that its integer square root has 55 or more
\* bits; one more bit below them says whether the root is inexact.
DSqrt(x) ==
    LET k0   == IF Len(x.m) < 110 THEN 110 - Len(x.m) ELSE 0
        k    == k0 + ((x.e + k0) % 2)
        n    == ToLimbs(Zeros(k) \o x.m)
        root == LSqrt(n)
    IN  Rounded(FALSE,
                <<IF StripHigh(LMul(root, root)) = StripHigh(n) THEN 0 ELSE 1>>
                    \o ToBits(root),
                ((x.e + k) \div 2) + 1)

DAbs(x) == [x EXCEPT !.neg = FALSE]

\* Equality of two normalised doubles.
DEq(x, y) ==
    /\ x.neg = y.neg
    /\ x.e = y.e
    /\ Len(x.m) = Len(y.m)
    /\ \A i \in 1..Len(x.m) : x.m[i] = y.m[i]

----------------------------------------------------------------------------
(* BB84Protocol: the functions *)

Min(a, b) == IF a < b THEN a ELSE b

\* np.random.randint(0, 2, n)
generate_random_bits(n) == BitSeqs(n)

generate_random_bases(n) == [1..n -> Basis]

prepare_qubits(bits, bases) ==
    [i \in 1..Min(Len(bits), Len(bases)) |-> <<bits[i], bases[i]>>]

\* The two bases are never compared: every qubit is read as if Bob had
\* chosen Alice's basis.
measure_qubits_ignoringBasis(qs, bases, draws) ==
    [i \in 1..(IF Len(qs) < Len(bases) THEN Len(qs) ELSE Len(bases)) |->
        IF draws[i] = 1 THEN 1 - qs[i][1] ELSE qs[i][1]]

\* One random draw per qubit.  On equal bases draws[i] = 1 stands for
\* np.random.random() < noise_level; on different bases draws[i] is the
\* value of np.random.randint(0, 2).
measure_qubits(qs, bases, draws) ==
    [i \in 1..Min(Len(qs), Len(bases)) |->
        IF qs[i][2] = bases[i]
        THEN IF draws[i] = 1 THEN 1 - qs[i][1] ELSE qs[i][1]
        ELSE draws[i]]

\* <= in place of <: at a draw of 0.0 the bit flips whatever the noise
\* level.
MeasureDraws_inclusive(qs, bases, noise) ==
    {d \in BitSeqs(Min(Len(qs), Len(bases))) :
        \A i \in 1..Len(d) :
            (qs[i][2] = bases[i] /\ d[i] = 0) => Gt(<<1, 1>>, noise)}

\* The draws the random source can produce: random() lies in [0, 1), so
\* random() < noise_level can hold only if noise_level > 0 and can fail
\* only if noise_level < 1.
MeasureDraws(qs, bases, noise) ==
    {d \in BitSeqs(Min(Len(qs), Len(bases))) :
        \A i \in 1..Len(d) :
            qs[i][2] = bases[i] =>
                /\ d[i] = 1 => Gt(noise, <<0, 1>>)
                /\ d[i] = 0 => Gt(<<1, 1>>, noise)}

RECURSIVE Mask(_, _)
\* numpy boolean-mask indexing x[mask]
Mask(x, mask) ==
    IF x = <<>> THEN <<>>
    ELSE (IF Head(mask) THEN <<Head(x)>> ELSE <<>>) \o Mask(Tail(x), Tail(mask))

\* Bob's sifted key taken from Alice's bits.
sift_keys_bobFromAlice(a_bits, a_bases, b_bits, b_bases) ==
    LET matching_bases == [i \in 1..Len(a_bases) |-> a_bases[i] = b_bases[i]]
    IN  [alice_sifted |-> Mask(a_bits, matching_bases),
         bob_sifted   |-> Mask(a_bits, matching_bases)]

sift_keys(a_bits, a_bases, b_bits, b_bases) ==
    LET matching_bases == [i \in 1..Len(a_bases) |-> a_bases[i] = b_bases[i]]
    IN  [alice_sifted |-> Mask(a_bits, matching_bases),
         bob_sifted   |-> Mask(b_bits, matching_bases)]

\* np.random.choice(n, k) with the default replace=True.
Choice_withReplacement(n, k) == [1..k -> 0..(n - 1)]

\* np.random.choice(n, k, replace=False): k distinct indices of range(n),
\* in any order.
Choice(n, k) ==
    {c \in [1..k -> 0..(n - 1)] : \A i, j \in 1..k : i # j => c[i] # c[j]}

\* The compared positions are not removed.
KeepIndices_all(i, key_length, chk) == [k \in 1..(key_length - i) |-> i + k - 1]

RECURSIVE KeepIndices(_, _, _)
\* [i for i in range(key_length) if i not in check_indices], from i on
KeepIndices(i, key_length, chk) ==
    IF i >= key_length THEN <<>>
    ELSE (IF \E j \in 1..Len(chk) : chk[j] = i THEN <<>> ELSE <<i>>)
         \o KeepIndices(i + 1, key_length, chk)

RECURSIVE Errors(_, _, _)
\* sum(1 for i in check_indices if alice_key[i] != bob_key[i])
Errors(chk, alice_key, bob_key) ==
    IF chk = <<>> THEN 0
    ELSE (IF alice_key[Head(chk) + 1] # bob_key[Head(chk) + 1] THEN 1 ELSE 0)
         + Errors(Tail(chk), alice_key, bob_key)

\* sample_size is <<>> for None and <<k>> for the int k.
SampleSize(alice_key, sample_size_arg) ==
    IF sample_size_arg = <<>> THEN Len(alice_key) \div 2 ELSE sample_size_arg[1]

\* > in place of >=.
InvalidSampleSize_offByOne(alice_key, sample_size_arg) ==
    SampleSize(alice_key, sample_size_arg) > Len(alice_key)

InvalidSampleSize(alice_key, sample_size_arg) ==
    SampleSize(alice_key, sample_size_arg) >= Len(alice_key)

\* The body of estimate_error_rate once the sample size passed the check;
\* chk is the value np.random.choice returned.
estimate_error_rate(alice_key, bob_key, sample_size_arg, chk) ==
    LET key_length == Len(alice_key)
        size       == SampleSize(alice_key, sample_size_arg)
        keep       == KeepIndices(0, key_length, chk)
        errors     == Errors(chk, alice_key, bob_key)
    IN  IF size = 0
        THEN [raised |-> "ZeroDivisionError", sample_size |-> size,
              check_indices |-> chk, keep_indices |-> keep,
              error_rate |-> <<>>, remaining_alice |-> <<>>, remaining_bob |-> <<>>]
        ELSE [raised |-> "", sample_size |-> size,
              check_indices |-> chk, keep_indices |-> keep,
              error_rate |-> <<errors, size>>,
              remaining_alice |-> [k \in 1..Len(keep) |-> alice_key[keep[k] + 1]],
              remaining_bob   |-> [k \in 1..Len(keep) |-> bob_key[keep[k] + 1]]]

\* estimate_error_rate left by the raise of line 168, before any sampling.
EstimateRaisesValueError(alice_key, sample_size_arg) ==
    [raised |-> "ValueError", sample_size |-> SampleSize(alice_key, sample_size_arg),
     check_indices |-> <<>>, keep_indices |-> <<>>,
     error_rate |-> <<>>, remaining_alice |-> <<>>, remaining_bob |-> <<>>]

NewLength(key, compression_factor) == IntOfProduct(Len(key), compression_factor)

Step(key, new_length) == Len(key) \div new_length

start_idx(i, step) == i * step

end_idx(i, step, key) == Min(start_idx(i, step) + step, Len(key))

\* The bits of the segment ORed instead of XORed.
SegmentBit_or(key, j, end) ==
    IF \E i \in j..(end - 1) : key[i + 1] = 1 THEN 1 ELSE 0

RECURSIVE SegmentBit(_, _, _)
\* segment_bit after the loop over range(j, end)
SegmentBit(key, j, end) ==
    IF j >= end THEN 0 ELSE (key[j + 1] + SegmentBit(key, j + 1, end)) % 2

\* The loop walks the whole key in segments of step bits.
privacy_amplification_wholeKey(key, compression_factor) ==
    LET new_length == NewLength(key, compression_factor)
    IN  IF new_length = 0 THEN <<>>
        ELSE IF new_length < 0 THEN <<>>
        ELSE LET step == Len(key) \div new_length
                 count == IF step = 0 THEN new_length
                          ELSE (Len(key) + step - 1) \div step
             IN  [k \in 1..count |->
                     SegmentBit(key, start_idx(k - 1, step), end_idx(k - 1, step, key))]

privacy_amplification(key, compression_factor) ==
    LET new_length == NewLength(key, compression_factor)
    IN  IF new_length = 0 THEN <<>>
        ELSE IF new_length < 0 THEN <<>>    \* range(new_length) is empty
        ELSE LET step == Step(key, new_length)
             IN  [k \in 1..new_length |->
                     SegmentBit(key, start_idx(k - 1, step), end_idx(k - 1, step, key))]

\* The comparison turned around.
ExceedsThreshold_reversed(rate, threshold) == Gt(threshold, rate)

\* >= in place of >.
ExceedsThreshold_inclusive(rate, threshold) == ~Gt(threshold, rate)

\* if error_rate > self.error_threshold
ExceedsThreshold(rate, threshold) == Gt(rate, threshold)

QKDResult(raw_key, sifted_key, key, rate, key_length, discarded_bits) ==
    [raw_key |-> raw_key, sifted_key |-> sifted_key, final_key |-> key,
     error_rate |-> rate, key_length |-> key_length,
     discarded_bits |-> discarded_bits]

----------------------------------------------------------------------------
(* run_protocol *)

\* The float arguments the model draws from: the defaults (noise 0.01,
\* ratio 0.5, threshold 0.11) and variations of them.
RunArgs ==
    {[noise_level |-> <<1, 100>>, check_sample_ratio |-> Double_0_5, error_threshold |-> <<11, 100>>],
     [noise_level |-> <<1, 100>>, check_sample_ratio |-> Double_0_7, error_threshold |-> <<1, 2>>],
     [noise_level |-> <<1, 100>>, check_sample_ratio |-> Double_1_0, error_threshold |-> <<11, 100>>],
     [noise_level |-> <<0, 1>>,   check_sample_ratio |-> Double_0_5, error_threshold |-> <<11, 100>>],
     [noise_level |-> <<0, 1>>,   check_sample_ratio |-> Double_0_7, error_threshold |-> <<0, 1>>]}

\* The key is not compressed.
DefaultCompressionFactor_one == Double_1_0

DefaultCompressionFactor == Double_0_7

\* KeyManager(storage_dir = "./keys")
StorageDir == "keys"

\* The key ids the model uses.
KeyIds == {"key_000", "key_001"}

\* filename = f"{key_id}.json"; os.path.join(self.storage_dir, filename)
filepath(key_id) == StorageDir \o "/" \o key_id \o ".json"

\* The paths the model uses: the files of the encryption test and the
\* key files.
Paths == {"test.txt", "test.enc", "test_dec.txt"} \cup {filepath(key_id) : key_id \in KeyIds}

\* No file exists.
NoFiles == [path \in Paths |-> <<>>]

NoCall == /\ args = <<>>
          /\ ret = <<>>
          /\ files = NoFiles

Init ==
    /\ pc = "Init"
    /\ visited = <<"Init">>
    /\ raised = ""
    /\ n_bits \in 0..MaxBits
    /\ \E a \in RunArgs :
           /\ noise_level = a.noise_level
           /\ check_sample_ratio = a.check_sample_ratio
           /\ error_threshold = a.error_threshold
    /\ alice_bits = <<>> /\ alice_bases = <<>> /\ qubits = <<>>
    /\ bob_bases = <<>> /\ bob_bits = <<>>
    /\ alice_sifted = <<>> /\ bob_sifted = <<>>
    /\ sample_size = 0 /\ check_indices = <<>>
    /\ error_rate = <<>> /\ alice_final = <<>> /\ bob_final = <<>>
    /\ final_key = <<>>
    /\ result = <<>>
    /\ NoCall

Goto(stage) ==
    /\ pc' = stage
    /\ visited' = Append(visited, stage)

\* Steps 1 and 2: Alice's bits and bases, the prepared qubits.
Prepare ==
    /\ pc = "Init"
    /\ alice_bits' \in generate_random_bits(n_bits)
    /\ alice_bases' \in generate_random_bases(n_bits)
    /\ qubits' = prepare_qubits(alice_bits', alice_bases')
    /\ Goto("Prepared")
    /\ UNCHANGED <<raised, n_bits, noise_level, check_sample_ratio, error_threshold,
                   bob_bases, bob_bits, alice_sifted, bob_sifted, sample_size,
                   check_indices, error_rate, alice_final, bob_final, final_key,
                   result, args, ret, files>>

\* Step 3: Bob's bases and his measurement.
Measure ==
    /\ pc = "Prepared"
    /\ bob_bases' \in generate_random_bases(n_bits)
    /\ \E draws \in MeasureDraws(qubits, bob_bases', noise_level) :
           bob_bits' = measure_qubits(qubits, bob_bases', draws)
    /\ Goto("Measured")
    /\ UNCHANGED <<raised, n_bits, noise_level, check_sample_ratio, error_threshold,
                   alice_bits, alice_bases, qubits, alice_sifted, bob_sifted,
                   sample_size, check_indices, error_rate, alice_final, bob_final,
                   final_key, result, args, ret, files>>

\* Step 4: sifting.
Sift ==
    /\ pc = "Measured"
    /\ LET sifted == sift_keys(alice_bits, alice_bases, bob_bits, bob_bases)
       IN  /\ alice_sifted' = sifted.alice_sifted
           /\ bob_sifted' = sifted.bob_sifted
    /\ Goto("Sifted")
    /\ UNCHANGED <<raised, n_bits, noise_level, check_sample_ratio, error_threshold,
                   alice_bits, alice_bases, qubits, bob_bases, bob_bits,
                   sample_size, check_indices, error_rate, alice_final, bob_final,
                   final_key, result, args, ret, files>>

\* The test of line 254 is missing: the empty keys go on to
\* estimate_error_rate, whose check of line 167 raises for 0 >= 0.
EmptySiftAbort_fallThrough ==
    /\ pc = "Sifted"
    /\ raised = ""
    /\ Len(alice_sifted) = 0
    /\ raised' = EstimateRaisesValueError(alice_sifted, <<0>>).raised
    /\ UNCHANGED <<pc, visited, n_bits, noise_level, check_sample_ratio, error_threshold,
                   alice_bits, alice_bases, qubits, bob_bases, bob_bits,
                   alice_sifted, bob_sifted, sample_size, check_indices, error_rate,
                   alice_final, bob_final, final_key, result, args, ret, files>>

\* if len(alice_sifted) == 0: return None
EmptySiftAbort ==
    /\ pc = "Sifted"
    /\ raised = ""
    /\ Len(alice_sifted) = 0
    /\ Goto("Aborted")
    /\ UNCHANGED <<raised, n_bits, noise_level, check_sample_ratio, error_threshold,
                   alice_bits, alice_bases, qubits, bob_bases, bob_bits,
                   alice_sifted, bob_sifted, sample_size, check_indices, error_rate,
                   alice_final, bob_final, final_key, result, args, ret, files>>

\* Step 5: error estimation.  An exception of estimate_error_rate leaves
\* run_protocol, which handles none.
EstimateError ==
    /\ pc = "Sifted"
    /\ raised = ""
    /\ Len(alice_sifted) # 0
    /\ sample_size' = IntOfProduct(Len(alice_sifted), check_sample_ratio)
    /\ \E est \in IF InvalidSampleSize(alice_sifted, <<sample_size'>>)
                  THEN {EstimateRaisesValueError(alice_sifted, <<sample_size'>>)}
                  ELSE {estimate_error_rate(alice_sifted, bob_sifted, <<sample_size'>>, chk) :
                           chk \in Choice(Len(alice_sifted), sample_size')} :
           /\ check_indices' = est.check_indices
           /\ raised' = est.raised
           /\ error_rate' = est.error_rate
           /\ alice_final' = est.remaining_alice
           /\ bob_final' = est.remaining_bob
           /\ IF est.raised = ""
              THEN Goto("ErrorChecked")
              ELSE UNCHANGED <<pc, visited>>
    /\ UNCHANGED <<n_bits, noise_level, check_sample_ratio, error_threshold,
                   alice_bits, alice_bases, qubits, bob_bases, bob_bits,
                   alice_sifted, bob_sifted, final_key, result, args, ret, files>>

\* The warning is logged but the return None of line 270 is missing.
SecurityAbort_noReturn ==
    /\ pc = "ErrorChecked"
    /\ ExceedsThreshold(error_rate, error_threshold)
    /\ final_key' = privacy_amplification(alice_final, DefaultCompressionFactor)
    /\ Goto("Amplified")
    /\ UNCHANGED <<raised, n_bits, noise_level, check_sample_ratio, error_threshold,
                   alice_bits, alice_bases, qubits, bob_bases, bob_bits,
                   alice_sifted, bob_sifted, sample_size, check_indices, error_rate,
                   alice_final, bob_final, result, args, ret, files>>

\* Step 6: the error rate exceeds the threshold: return None
SecurityAbort ==
    /\ pc = "ErrorChecked"
    /\ ExceedsThreshold(error_rate, error_threshold)
    /\ Goto("Aborted")
    /\ UNCHANGED <<raised, n_bits, noise_level, check_sample_ratio, error_threshold,
                   alice_bits, alice_bases, qubits, bob_bases, bob_bits,
                   alice_sifted, bob_sifted, sample_size, check_indices, error_rate,
                   alice_final, bob_final, final_key, result, args, ret, files>>

\* The amplified bits are drawn from the random source after the sample,
\* by a draw that is neither an argument nor one of the recorded draws.
Amplify_freshBits ==
    /\ pc = "ErrorChecked"
    /\ ~ExceedsThreshold(error_rate, error_threshold)
    /\ final_key' \in BitSeqs(Len(privacy_amplification(alice_final, DefaultCompressionFactor)))
    /\ Goto("Amplified")
    /\ UNCHANGED <<raised, n_bits, noise_level, check_sample_ratio, error_threshold,
                   alice_bits, alice_bases, qubits, bob_bases, bob_bits,
                   alice_sifted, bob_sifted, sample_size, check_indices, error_rate,
                   alice_final, bob_final, result, args, ret, files>>

\* The final key is amplified from Bob's remaining key.
Amplify_fromBob ==
    /\ pc = "ErrorChecked"
    /\ ~ExceedsThreshold(error_rate, error_threshold)
    /\ final_key' = privacy_amplification(bob_final, DefaultCompressionFactor)
    /\ Goto("Amplified")
    /\ UNCHANGED <<raised, n_bits, noise_level, check_sample_ratio, error_threshold,
                   alice_bits, alice_bases, qubits, bob_bases, bob_bits,
                   alice_sifted, bob_sifted, sample_size, check_indices, error_rate,
                   alice_final, bob_final, result, args, ret, files>>

\* Step 7: privacy amplification of Alice's remaining key.
Amplify ==
    /\ pc = "ErrorChecked"
    /\ ~ExceedsThreshold(error_rate, error_threshold)
    /\ final_key' = privacy_amplification(alice_final, DefaultCompressionFactor)
    /\ Goto("Amplified")
    /\ UNCHANGED <<raised, n_bits, noise_level, check_sample_ratio, error_threshold,
                   alice_bits, alice_bases, qubits, bob_bases, bob_bits,
                   alice_sifted, bob_sifted, sample_size, check_indices, error_rate,
                   alice_final, bob_final, result, args, ret, files>>

\* discarded_bits counted from the sifted key instead of the raw bits.
ReturnResult_fromSifted ==
    /\ pc = "Amplified"
    /\ result' = <<QKDResult(alice_bits, alice_sifted, final_key, error_rate,
                             Len(final_key), Len(alice_sifted) - Len(final_key))>>
    /\ Goto("Done")
    /\ UNCHANGED <<raised, n_bits, noise_level, check_sample_ratio, error_threshold,
                   alice_bits, alice_bases, qubits, bob_bases, bob_bits,
                   alice_sifted, bob_sifted, sample_size, check_indices, error_rate,
                   alice_final, bob_final, final_key, args, ret, files>>

\* return result: the QKDResult is <<r>>, None is <<>>.
ReturnResult ==
    /\ pc = "Amplified"
    /\ result' = <<QKDResult(alice_bits, alice_sifted, final_key, error_rate,
                             Len(final_key), n_bits - Len(final_key))>>
    /\ Goto("Done")
    /\ UNCHANGED <<raised, n_bits, noise_level, check_sample_ratio, error_threshold,
                   alice_bits, alice_bases, qubits, bob_bases, bob_bits,
                   alice_sifted, bob_sifted, sample_size, check_indices, error_rate,
                   alice_final, bob_final, final_key, args, ret, files>>

ReturnNone ==
    /\ pc = "Aborted"
    /\ result' = <<>>
    /\ Goto("Done")
    /\ UNCHANGED <<raised, n_bits, noise_level, check_sample_ratio, error_threshold,
                   alice_bits, alice_bases, qubits, bob_bases, bob_bits,
                   alice_sifted, bob_sifted, sample_size, check_indices, error_rate,
                   alice_final, bob_final, final_key, args, ret, files>>

Next ==
    \/ Prepare
    \/ Measure
    \/ Sift
    \/ EmptySiftAbort
    \/ EstimateError
    \/ SecurityAbort
    \/ Amplify
    \/ ReturnResult
    \/ ReturnNone

Spec == Init /\ [][Next]_vars

\* run_protocol as a function of its arguments, of self.error_threshold and
\* of the values the random source returned: Alice's bits and bases, Bob's
\* bases, the draws of measure_qubits and the sample of
\* estimate_error_rate (chk; not drawn when the run ends before line 171).
run_protocol(n, ratio, threshold, a_bits, a_bases, b_bases, draws, chk) ==
    LET qs     == prepare_qubits(a_bits, a_bases)
        b_bits == measure_qubits(qs, b_bases, draws)
        sifted == sift_keys(a_bits, a_bases, b_bits, b_bases)
        size   == IntOfProduct(Len(sifted.alice_sifted), ratio)
        est    == IF InvalidSampleSize(sifted.alice_sifted, <<size>>)
                  THEN EstimateRaisesValueError(sifted.alice_sifted, <<size>>)
                  ELSE estimate_error_rate(sifted.alice_sifted, sifted.bob_sifted,
                                           <<size>>, chk)
        key    == privacy_amplification(est.remaining_alice, DefaultCompressionFactor)
    IN  IF Len(sifted.alice_sifted) = 0
        THEN [outcome |-> "EmptySiftAbort", raised |-> "", result |-> <<>>]
        ELSE IF est.raised # ""
        THEN [outcome |-> "Raised", raised |-> est.raised, result |-> <<>>]
        ELSE IF ExceedsThreshold(est.error_rate, threshold)
        THEN [outcome |-> "SecurityAbort", raised |-> "", result |-> <<>>]
        ELSE [outcome |-> "Success", raised |-> "",
              result |-> <<QKDResult(a_bits, sifted.alice_sifted, key, est.error_rate,
                                     Len(key), n - Len(key))>>]

----------------------------------------------------------------------------
(* Single calls of sift_keys, estimate_error_rate and privacy_amplification *)

\* No run of run_protocol is in progress.
NoRun ==
    /\ visited = <<>>
    /\ raised = ""
    /\ n_bits = 0
    /\ noise_level = <<0, 1>>
    /\ check_sample_ratio = Double_0_5
    /\ error_threshold = <<11, 100>>
    /\ alice_bits = <<>> /\ alice_bases = <<>> /\ qubits = <<>>
    /\ bob_bases = <<>> /\ bob_bits = <<>>
    /\ alice_sifted = <<>> /\ bob_sifted = <<>>
    /\ sample_size = 0 /\ check_indices = <<>>
    /\ error_rate = <<>> /\ alice_final = <<>> /\ bob_final = <<>>
    /\ final_key = <<>>
    /\ result = <<>>
    /\ files = NoFiles

runVars == <<visited, raised, n_bits, noise_level, check_sample_ratio,
             error_threshold, alice_bits, alice_bases, qubits, bob_bases,
             bob_bits, alice_sifted, bob_sifted, sample_size, check_indices,
             error_rate, alice_final, bob_final, final_key, result>>

SiftArgs ==
    UNION {[alice_bits : BitSeqs(n), alice_bases : [1..n -> Basis],
            bob_bits : BitSeqs(n), bob_bases : [1..n -> Basis]] : n \in 0..MaxSiftLen}

InitSift ==
    /\ pc = "call"
    /\ args \in SiftArgs
    /\ ret = <<>>
    /\ NoRun

CallSiftKeys ==
    /\ pc = "call"
    /\ pc' = "return"
    /\ ret' = sift_keys(args.alice_bits, args.alice_bases, args.bob_bits, args.bob_bases)
    /\ UNCHANGED <<args, runVars, files>>

NextSift == CallSiftKeys

SpecSift == InitSift /\ [][NextSift]_vars

\* sample_size: None, or an int from 0 to one more than the key length.
EstimateArgs ==
    UNION {[alice_key : BitSeqs(n), bob_key : BitSeqs(n),
            sample_size : {<<>>} \cup {<<k>> : k \in 0..(n + 1)}] : n \in 0..MaxKeyLen}

InitEstimate ==
    /\ pc = "call"
    /\ args \in EstimateArgs
    /\ ret = <<>>
    /\ NoRun

CallEstimateErrorRate ==
    /\ pc = "call"
    /\ pc' = "return"
    /\ IF InvalidSampleSize(args.alice_key, args.sample_size)
       THEN ret' = EstimateRaisesValueError(args.alice_key, args.sample_size)
       ELSE \E chk \in Choice(Len(args.alice_key),
                              SampleSize(args.alice_key, args.sample_size)) :
                ret' = estimate_error_rate(args.alice_key, args.bob_key,
                                           args.sample_size, chk)
    /\ UNCHANGED <<args, runVars, files>>

NextEstimate == CallEstimateErrorRate

SpecEstimate == InitEstimate /\ [][NextEstimate]_vars

CompressionFactors ==
    {Double_0_0, Double_0_25, Double_0_5, Double_0_7, Double_1_0, Double_2_0,
     Double_m0_5}

LongKeys ==
    {[i \in 1..LongKeyLen |-> 0], [i \in 1..LongKeyLen |-> 1],
     [i \in 1..LongKeyLen |-> i % 2]}

AmplifyArgs ==
    [key : BitSeqsUpTo(MaxAmpLen), compression_factor : CompressionFactors]
    \cup [key : LongKeys, compression_factor : CompressionFactors]

InitAmplify ==
    /\ pc = "call"
    /\ args \in AmplifyArgs
    /\ ret = <<>>
    /\ NoRun

CallPrivacyAmplification ==
    /\ pc = "call"
    /\ pc' = "return"
    /\ ret' = privacy_amplification(args.key, args.compression_factor)
    /\ UNCHANGED <<args, runVars, files>>

NextAmplify == CallPrivacyAmplification

SpecAmplify == InitAmplify /\ [][NextAmplify]_vars

----------------------------------------------------------------------------
(* QuantumSimulator (src/ncrypt/simulator/quantum_simulator.py).           *)
(* State vectors and measurement operators are complex arrays whose        *)
(* imaginary parts are all zero; the model keeps the real parts, as        *)
(* doubles.  On such numbers the conjugation of np.vdot does nothing and   *)
(* np.abs is the absolute value.                                           *)

RECURSIVE HexBits(_)
\* the bits, least significant first, of hex digits given most
\* significant first
HexBits(h) ==
    IF h = <<>> THEN <<>>
    ELSE LET d == h[Len(h)]
         IN  <<d % 2, (d \div 2) % 2, (d \div 4) % 2, d \div 8>>
             \o HexBits(SubSeq(h, 1, Len(h) - 1))

\* np.sqrt(2) = 0x1.6a09e667f3bcdp+0
Sqrt2 == Normalised(FALSE, HexBits(<<1, 6, 10, 0, 9, 14, 6, 6, 7, 15, 3, 11, 12, 13>>), 52)

\* 0.01 = 0x1.47ae147ae147bp-7
Double_0_01 == Normalised(FALSE, HexBits(<<1, 4, 7, 10, 14, 1, 4, 7, 10, 14, 1, 4, 7, 11>>), 59)

NoiseModels == {"None", "depolarizing", "amplitude_damping"}

\* numpy divides the complex x by the real c as x * (1.0 / c).
DivideByReal(x, c) == DMul(x, DDiv(Double_1_0, c))

create_qubit_state(bit, basis) ==
    IF basis = 0
    THEN IF bit = 0 THEN <<Double_1_0, Double_0_0>>
         ELSE <<Double_0_0, Double_1_0>>
    ELSE IF bit = 0
         THEN <<DivideByReal(Double_1_0, Sqrt2), DivideByReal(Double_1_0, Sqrt2)>>
         ELSE <<DivideByReal(Double_1_0, Sqrt2), DivideByReal(DNeg(Double_1_0), Sqrt2)>>

\* The two operators swapped.
get_measurement_operator_swapped(basis) ==
    IF basis = 0
    THEN [M0 |-> <<<<Double_0_0, Double_0_0>>, <<Double_0_0, Double_1_0>>>>,
          M1 |-> <<<<Double_1_0, Double_0_0>>, <<Double_0_0, Double_0_0>>>>]
    ELSE [M0 |-> <<<<Double_0_5, Double_m0_5>>, <<Double_m0_5, Double_0_5>>>>,
          M1 |-> <<<<Double_0_5, Double_0_5>>, <<Double_0_5, Double_0_5>>>>]

get_measurement_operator(basis) ==
    IF basis = 0
    THEN [M0 |-> <<<<Double_1_0, Double_0_0>>, <<Double_0_0, Double_0_0>>>>,
          M1 |-> <<<<Double_0_0, Double_0_0>>, <<Double_0_0, Double_1_0>>>>]
    ELSE [M0 |-> <<<<Double_0_5, Double_0_5>>, <<Double_0_5, Double_0_5>>>>,
          M1 |-> <<<<Double_0_5, Double_m0_5>>, <<Double_m0_5, Double_0_5>>>>]

\* M @ v
MatVec(M, v) ==
    [i \in 1..2 |-> DAdd(DMul(M[i][1], v[1]), DMul(M[i][2], v[2]))]

\* np.vdot(u, v)
VDot(u, v) == DAdd(DMul(u[1], v[1]), DMul(u[2], v[2]))

\* np.linalg.norm(v)
Norm(v) == DSqrt(DAdd(DMul(v[1], v[1]), DMul(v[2], v[2])))

\* A simulator without a noise model applies depolarizing noise.
apply_noise_depolarizingByDefault(noise_model, state, noise) ==
    IF noise_model = "amplitude_damping"
    THEN LET decay_factor == DSub(Double_1_0, noise)
             noisy_state  == <<DAdd(state[1], DMul(DSqrt(noise), state[2])),
                               DMul(state[2], DSqrt(decay_factor))>>
             norm         == Norm(noisy_state)
         IN  [i \in 1..2 |-> DivideByReal(noisy_state[i], norm)]
    ELSE LET mixed_state == <<Double_0_5, Double_0_5>>
             noisy_state == [i \in 1..2 |->
                                DAdd(DMul(DSub(Double_1_0, noise), state[i]),
                                     DMul(noise, mixed_state[i]))]
             norm        == Norm(noisy_state)
         IN  [i \in 1..2 |-> DivideByReal(noisy_state[i], norm)]

apply_noise(noise_model, state, noise) ==
    IF noise_model = "depolarizing"
    THEN LET mixed_state == <<Double_0_5, Double_0_5>>
             noisy_state == [i \in 1..2 |->
                                DAdd(DMul(DSub(Double_1_0, noise), state[i]),
                                     DMul(noise, mixed_state[i]))]
             norm        == Norm(noisy_state)
         IN  [i \in 1..2 |-> DivideByReal(noisy_state[i], norm)]
    ELSE IF noise_model = "amplitude_damping"
    THEN LET decay_factor == DSub(Double_1_0, noise)
             noisy_state  == <<DAdd(state[1], DMul(DSqrt(noise), state[2])),
                               DMul(state[2], DSqrt(decay_factor))>>
             norm         == Norm(noisy_state)
         IN  [i \in 1..2 |-> DivideByReal(noisy_state[i], norm)]
    ELSE state

\* np.random.choice([0, 1], p): the uniform draw u of [0, 1) is looked up
\* in the cumulated probabilities, themselves divided by their sum; the
\* result is 0 iff u < cdf[0].
ChoiceOutcomes(p0, p1) ==
    LET cdf0 == DDiv(p0, DAdd(p0, p1))
    IN  {b \in Bit : IF b = 0 THEN ~DEq(cdf0, Double_0_0)
                               ELSE ~DEq(cdf0, Double_1_0)}

\* Line 145: results are the values np.random.choice can return.
Chosen(prob_0, prob_1) ==
    [prob_0 |-> prob_0, prob_1 |-> prob_1, results |-> ChoiceOutcomes(prob_0, prob_1)]

\* Lines 140-142: the two probabilities divided by their sum.
NormalisedBy(prob_0, prob_1, total) == Chosen(DDiv(prob_0, total), DDiv(prob_1, total))

NormaliseAndChoose(prob_0, prob_1) == NormalisedBy(prob_0, prob_1, DAdd(prob_0, prob_1))

\* Lines 136-145, for the operators M of the measuring basis.
MeasureWith(M, state) ==
    NormaliseAndChoose(DAbs(VDot(state, MatVec(M.M0, state))),
                       DAbs(VDot(state, MatVec(M.M1, state))))

measure_qubit(noise_model, state, basis, noise) ==
    MeasureWith(get_measurement_operator(basis),
                IF noise.m # <<>> /\ ~noise.neg
                THEN apply_noise(noise_model, state, noise)
                ELSE state)

SimNoiseLevels == {Double_0_0, Double_0_01}

\* measure_qubit(create_qubit_state(bit, basis), measured, noise) for
\* every argument the model draws, computed once.
Measurements ==
    [noise_model \in NoiseModels, noise \in SimNoiseLevels,
     bit \in Bit, basis \in Basis, measured \in Basis |->
        measure_qubit(noise_model, create_qubit_state(bit, basis), measured,
                      noise)]

\* The lists simulate_qkd_exchange can return: one measure_qubit per
\* position.
simulate_qkd_exchange(noise_model, bits, bases, measuring, noise) ==
    {bob_results \in BitSeqs(Len(bits)) :
        \A i \in 1..Len(bits) :
            bob_results[i] \in
                Measurements[noise_model, noise, bits[i], bases[i], measuring[i]].results}

\* 0.11 = 0x1.c28f5c28f5c29p-4
Double_0_11 == Normalised(FALSE, HexBits(<<1, 12, 2, 8, 15, 5, 12, 2, 8, 15, 5, 12, 2, 9>>), 56)

\* float(n) for an int n >= 0 of at most 53 bits
DoubleOfInt(n) == Normalised(FALSE, MulBits(<<1>>, n, 0), 0)

\* x < y: the sign of the rounded difference is the sign of the difference.
DLess(x, y) == DSub(x, y).neg

\* Lines 211-219, for the error rate of line 208.
ChannelStats(rate, n_test_qubits, noise) ==
    [error_rate  |-> rate,
     fidelity    |-> DSub(Double_1_0, rate),
     test_qubits |-> n_test_qubits,
     noise_level |-> noise,
     status      |-> IF DLess(rate, Double_0_11) THEN "good" ELSE "degraded"]

\* bits and bases are the draws of lines 196-197, bob_results the list
\* simulate_qkd_exchange returned; errors / 0 raises.
estimate_channel_quality(n_test_qubits, noise, bits, bob_results) ==
    IF n_test_qubits = 0 THEN Raise("ZeroDivisionError")
    ELSE Return(ChannelStats(
             DDiv(DoubleOfInt(Cardinality({i \in 1..n_test_qubits :
                                              bits[i] # bob_results[i]})),
                  DoubleOfInt(n_test_qubits)),
             n_test_qubits, noise))

----------------------------------------------------------------------------
(* Single calls of BB84Protocol.measure_qubits and of                      *)
(* QuantumSimulator.simulate_qkd_exchange and estimate_channel_quality     *)

MeasureQubitsArgs ==
    UNION {[fn : {"measure_qubits"},
            qubits : [1..n -> Bit \X Basis], bases : [1..n -> Basis],
            noise_level : {<<0, 1>>, <<1, 100>>, <<1, 2>>}] : n \in 0..MaxExchange}

SimulateArgs ==
    UNION {[fn : {"simulate_qkd_exchange"},
            noise_model : NoiseModels, noise_level : SimNoiseLevels,
            alice_bits : BitSeqs(n), alice_bases : [1..n -> Basis],
            bob_bases : [1..n -> Basis]] : n \in 0..MaxExchange}

EstimateQualityArgs ==
    [fn : {"estimate_channel_quality"}, noise_model : NoiseModels,
     n_test_qubits : 0..MaxExchange, noise_level : SimNoiseLevels]

InitMeasure ==
    /\ pc = "call"
    /\ args \in MeasureQubitsArgs \cup SimulateArgs \cup EstimateQualityArgs
    /\ ret = <<>>
    /\ NoRun

CallMeasureQubits ==
    /\ pc = "call"
    /\ args.fn = "measure_qubits"
    /\ pc' = "return"
    /\ \E draws \in MeasureDraws(args.qubits, args.bases, args.noise_level) :
           ret' = measure_qubits(args.qubits, args.bases, draws)
    /\ UNCHANGED <<args, runVars, files>>

\* One measure_qubit per position; ret keeps, next to the returned
\* bob_results, the probabilities each position was measured with.
CallSimulateQkdExchange ==
    /\ pc = "call"
    /\ args.fn = "simulate_qkd_exchange"
    /\ pc' = "return"
    /\ LET measured == [i \in 1..Len(args.alice_bits) |->
                           Measurements[args.noise_model, args.noise_level,
                                        args.alice_bits[i], args.alice_bases[i],
                                        args.bob_bases[i]]]
       IN  \E bob_results \in BitSeqs(Len(args.alice_bits)) :
               /\ \A i \in 1..Len(bob_results) : bob_results[i] \in measured[i].results
               /\ ret' = [measured |-> measured, bob_results |-> bob_results]
    /\ UNCHANGED <<args, runVars, files>>

\* ret keeps, next to the outcome, the bits and bases drawn.
CallEstimateChannelQuality ==
    /\ pc = "call"
    /\ args.fn = "estimate_channel_quality"
    /\ pc' = "return"
    /\ \E bits \in BitSeqs(args.n_test_qubits), bases \in [1..args.n_test_qubits -> Basis] :
          \E bob_results \in simulate_qkd_exchange(args.noise_model, bits, bases, bases,
                                                   args.noise_level) :
              ret' = [alice_bits |-> bits, bases |-> bases,
                      outcome |-> estimate_channel_quality(args.n_test_qubits,
                                      args.noise_level, bits, bob_results)]
    /\ UNCHANGED <<args, runVars, files>>

NextMeasure ==
    \/ CallMeasureQubits
    \/ CallSimulateQkdExchange
    \/ CallEstimateChannelQuality

SpecMeasure == InitMeasure /\ [][NextMeasure]_vars

----------------------------------------------------------------------------
(* QuantumEncryption (src/ncrypt/core/encryption.py)                        *)
(*                                                                         *)
(* A bytes object is a sequence of bytes.  A byte whose value is known is  *)
(* [byte |-> n] with n in 0..255.  The bytes that AES-256-CBC and          *)
(* HMAC-SHA256 produce are values of which the model keeps what they were  *)
(* computed from: two of them are equal only if they were computed from    *)
(* the same key and the same data, and decryption recovers the data of a   *)
(* block under the key and the preceding block it was encrypted with.      *)
(* The outcome of a call is Return(v) or Raise(exception).                  *)

Byte(n) == [byte |-> n]

BytesOf(ints) == [i \in 1..Len(ints) |-> Byte(ints[i])]

IsKnown(b) == DOMAIN b = {"byte"}

\* 128 bits: the block of AES and of padding.PKCS7(128)
BlockSize == 16

\* self.key_to_bytes(quantum_key, 32)
KeyBytes == 32

\* The bits are packed least significant bit first.
PackBits_lsbFirst(key_bits, i, j, byte) ==
    LET bit(k) == IF i + k < Len(key_bits) THEN key_bits[i + k + 1] ELSE 0
    IN  bit(0) + 2 * bit(1) + 4 * bit(2) + 8 * bit(3)
        + 16 * bit(4) + 32 * bit(5) + 64 * bit(6) + 128 * bit(7)

RECURSIVE PackBits(_, _, _, _)
\* for j in range(8): if i + j < len(key_bits): byte = (byte << 1) | key_bits[i + j]
\* from j on
PackBits(key_bits, i, j, byte) ==
    IF j = 8 THEN byte
    ELSE PackBits(key_bits, i, j + 1,
                  IF i + j < Len(key_bits) THEN 2 * byte + key_bits[i + j + 1]
                  ELSE byte)

key_to_bytes(key_bits, target_length) ==
    IF Len(key_bits) < target_length * 8
    THEN Raise("ValueError")
    ELSE LET bits == SubSeq(key_bits, 1, target_length * 8)
             count == (Len(bits) + 7) \div 8
         IN  Return([k \in 1..count |-> Byte(PackBits(bits, 8 * (k - 1), 0, 0))])

\* hmac.new(key, msg, hashlib.sha256).digest(): 32 bytes, taken as one
\* value; altered is TRUE for a digest of which some byte was changed.
hmac_new(key, msg) == [hmac_key |-> key, hmac_msg |-> msg, altered |-> FALSE]

\* hmac.compare_digest
compare_digest(a, b) == a = b

\* b"ncrypt-qkd-v1"
DefaultSalt == BytesOf(<<110, 99, 114, 121, 112, 116, 45, 113, 107, 100, 45, 118, 49>>)

derive_key(quantum_key, salt) ==
    LET quantum_bytes == key_to_bytes(quantum_key, KeyBytes)
    IN  IF quantum_bytes.raised # "" THEN quantum_bytes
        ELSE Return(hmac_new(IF salt = <<>> THEN DefaultSalt ELSE salt,
                             quantum_bytes.value[1]))

\* padder.update(data) + padder.finalize()
PKCS7_pad(data) ==
    LET n == BlockSize - (Len(data) % BlockSize)
    IN  data \o [i \in 1..n |-> Byte(n)]

\* The padding is left in place.
PKCS7_unpad_keepingPadding(data) == {Return(data)}

\* unpadder.update(data) + unpadder.finalize(): the last byte n must lie in
\* 1..16 and the last n bytes must all be n.  A byte whose value is not
\* known may or may not have the value the check asks for.
PKCS7_unpad(data) ==
    LET last(i) == data[Len(data) - i + 1]
        possible(n) == \A i \in 1..n : ~IsKnown(last(i)) \/ last(i).byte = n
        certain(n)  == \A i \in 1..n : IsKnown(last(i)) /\ last(i).byte = n
        sizes == {n \in 1..BlockSize : n <= Len(data) /\ possible(n)}
    IN  IF Len(data) = 0 \/ Len(data) % BlockSize # 0
        THEN {Raise("ValueError")}
        ELSE {Return(SubSeq(data, 1, Len(data) - n)) : n \in sizes}
             \cup (IF \E n \in sizes : certain(n) THEN {} ELSE {Raise("ValueError")})

\* Block number b (from 1) of a bytes object.
Block(data, b) == SubSeq(data, BlockSize * (b - 1) + 1, BlockSize * b)

\* encryptor.update(data) + encryptor.finalize() of AES-256-CBC, for data
\* of whole blocks: the bytes of block b are computed from the key, the iv
\* and the data up to the end of block b.
CBC_encrypt(key, iv, data) ==
    [j \in 1..Len(data) |->
        [cbc_key |-> key, cbc_iv |-> iv,
         cbc_in |-> SubSeq(data, 1, BlockSize * ((j + BlockSize - 1) \div BlockSize)),
         pos |-> ((j - 1) % BlockSize) + 1]]

\* The block that preceded an encrypted block when it was encrypted.
PrecedingBlock(first) ==
    LET blocks == Len(first.cbc_in) \div BlockSize
    IN  IF blocks = 1 THEN first.cbc_iv
        ELSE Block(CBC_encrypt(first.cbc_key, first.cbc_iv,
                               SubSeq(first.cbc_in, 1, BlockSize * (blocks - 1))),
                   blocks - 1)

\* One block of decryptor.update(ciphertext): a block encrypted under this
\* key and following the block it followed at encryption gives its data
\* back; any other block gives 16 bytes of unknown value.
CBC_decrypt_block(key, previous, block) ==
    LET first == block[1]
        whole == /\ DOMAIN first = {"cbc_key", "cbc_iv", "cbc_in", "pos"}
                 /\ block = Block(CBC_encrypt(first.cbc_key, first.cbc_iv, first.cbc_in),
                                  Len(first.cbc_in) \div BlockSize)
    IN  IF whole /\ first.cbc_key = key /\ PrecedingBlock(first) = previous
        THEN Block(first.cbc_in, Len(first.cbc_in) \div BlockSize)
        ELSE [j \in 1..BlockSize |->
                 [unknown |-> <<key, previous, block>>, pos |-> j]]

RECURSIVE CBC_decrypt(_, _, _)
\* decryptor.update(ciphertext) + decryptor.finalize(), for a ciphertext of
\* whole blocks
CBC_decrypt(key, iv, ciphertext) ==
    IF ciphertext = <<>> THEN <<>>
    ELSE CBC_decrypt_block(key, iv, Block(ciphertext, 1))
         \o CBC_decrypt(key, Block(ciphertext, 1),
                        SubSeq(ciphertext, BlockSize + 1, Len(ciphertext)))

\* iv is the value of os.urandom(16).  associated_data is None (<<>>) or
\* <<bytes>>.
encrypt(plaintext, quantum_key, associated_data, iv) ==
    LET key == derive_key(quantum_key, <<>>)
    IN  IF key.raised # "" THEN key
        ELSE LET padded_data == PKCS7_pad(plaintext)
                 ciphertext  == CBC_encrypt(key.value[1], iv, padded_data)
                 tag         == hmac_new(key.value[1], iv \o ciphertext)
             IN  Return([ciphertext |-> ciphertext, iv |-> iv, tag |-> tag])

\* The tag is not verified.
decrypt_unverified(ciphertext, iv, tag, quantum_key, associated_data) ==
    LET key == derive_key(quantum_key, <<>>)
    IN  IF key.raised # "" THEN {key}
        ELSE IF Len(iv) # BlockSize \/ Len(ciphertext) % BlockSize # 0
        THEN {Raise("ValueError")}
        ELSE PKCS7_unpad(CBC_decrypt(key.value[1], iv, ciphertext))

\* The outcomes of decrypt.  Cipher(...) raises ValueError for an iv that
\* is not one block long, decryptor.finalize() for a ciphertext that is
\* not of whole blocks.
decrypt(ciphertext, iv, tag, quantum_key, associated_data) ==
    LET key == derive_key(quantum_key, <<>>)
    IN  IF key.raised # "" THEN {key}
        ELSE IF ~compare_digest(tag, hmac_new(key.value[1], iv \o ciphertext))
        THEN {Raise("ValueError")}
        ELSE IF Len(iv) # BlockSize \/ Len(ciphertext) % BlockSize # 0
        THEN {Raise("ValueError")}
        ELSE PKCS7_unpad(CBC_decrypt(key.value[1], iv, ciphertext))

\* with open(path, 'rb') as f: f.read(), in the file system fs
open_rb(fs, path) ==
    IF fs[path] = <<>> THEN Raise("FileNotFoundError") ELSE Return(fs[path][1])

\* with open(path, 'wb') as f: f.write(data)
open_wb(fs, path, data) == [fs EXCEPT ![path] = <<data>>]

\* The value returned or the exception raised, and the file system left.
encrypt_file(fs, input_path, output_path, quantum_key, iv) ==
    LET plaintext == open_rb(fs, input_path)
    IN  IF plaintext.raised # "" THEN [ret |-> plaintext, files |-> fs]
        ELSE LET encrypted == encrypt(plaintext.value[1], quantum_key, <<>>, iv)
             IN  IF encrypted.raised # "" THEN [ret |-> encrypted, files |-> fs]
                 ELSE [ret   |-> Return([iv  |-> encrypted.value[1].iv,
                                         tag |-> encrypted.value[1].tag]),
                       files |-> open_wb(fs, output_path,
                                         encrypted.value[1].ciphertext)]

\* The outcomes of decrypt_file, which returns None (<<>>).
decrypt_file(fs, input_path, output_path, iv, tag, quantum_key) ==
    LET ciphertext == open_rb(fs, input_path)
    IN  IF ciphertext.raised # "" THEN {[ret |-> ciphertext, files |-> fs]}
        ELSE {IF plaintext.raised # "" THEN [ret |-> plaintext, files |-> fs]
              ELSE [ret   |-> Return(<<>>),
                    files |-> open_wb(fs, output_path, plaintext.value[1])] :
                 plaintext \in decrypt(ciphertext.value[1], iv, tag, quantum_key, <<>>)}

----------------------------------------------------------------------------
(* Calls of QuantumEncryption: one call, or an encryption followed by a    *)
(* decryption.  args is the sequence of the calls made, ret the sequence   *)
(* of their outcomes.                                                      *)

\* key_to_bytes is called on every bit sequence of up to MaxPackLen bits
MaxPackLen == 9

\* and asked for 0, 1 or 32 bytes.
PackLengths == {0, 1, KeyBytes}

\* [1, 0, 1, 0, 1, 0, 1, 0] * 32
QuantumKey == [i \in 1..(8 * KeyBytes) |-> i % 2]

\* The number of bits of the key that is longer than 256 bits
ExtraBits == 8

\* A key, a key that differs from it in its last bit, a longer key that
\* starts with it, a key one bit too short and the empty key.
QuantumKeys ==
    {QuantumKey,
     [i \in 1..(8 * KeyBytes) |-> IF i = 8 * KeyBytes THEN 1 ELSE QuantumKey[i]],
     QuantumKey \o [i \in 1..ExtraBits |-> 1],
     SubSeq(QuantumKey, 1, 8 * KeyBytes - 1),
     <<>>}

\* The longest plaintext
MaxPlainLen == 17

\* b"", one byte, and the lengths around one block
PlainLengths == {0, 1} \cup ((BlockSize - 1)..MaxPlainLen)

\* Plaintexts made of one byte value: 0x01 and 0x10 are the values that
\* padding consists of.
Plaintexts == {[i \in 1..n |-> Byte(b)] : n \in PlainLengths, b \in {1, BlockSize}}

\* os.urandom(16)
IVs == {[i \in 1..BlockSize |-> Byte(0)], [i \in 1..BlockSize |-> Byte(i)]}

\* associated_data: None or b"a"
AssociatedData == {<<>>, <<BytesOf(<<97>>)>>}

Salts == {<<>>, BytesOf(<<115>>)}

\* What decrypt is given in place of the message (ciphertext, iv, tag)
\* that encrypt returned.
Tamperings == {"none", "truncated", "altered", "other_iv", "short_iv", "altered_tag"}

Tampered(m, how) ==
    CASE how = "none"        -> m
      [] how = "truncated"   ->
            [m EXCEPT !.ciphertext = SubSeq(m.ciphertext, 1, Len(m.ciphertext) - BlockSize)]
      [] how = "altered"     ->
            [m EXCEPT !.ciphertext =
                [j \in 1..Len(m.ciphertext) |->
                    IF j = Len(m.ciphertext) THEN [altered |-> m.ciphertext[j]]
                    ELSE m.ciphertext[j]]]
      [] how = "other_iv"    -> [m EXCEPT !.iv = CHOOSE v \in IVs : v # m.iv]
      [] how = "short_iv"    -> [m EXCEPT !.iv = SubSeq(m.iv, 1, BlockSize - 1)]
      [] how = "altered_tag" -> [m EXCEPT !.tag = [m.tag EXCEPT !.altered = TRUE]]

\* The changed messages for which the holder of the key computes a new tag
Retaggings == {"truncated", "altered", "short_iv"}

\* The message with the tag computed for it under the key of its tag.
Retagged(m) == [m EXCEPT !.tag = hmac_new(m.tag.hmac_key, m.iv \o m.ciphertext)]

\* The messages decrypt is called with after encrypt returned m.
Messages(m) ==
    {Tampered(m, how) : how \in Tamperings}
        \cup {Retagged(Tampered(m, how)) : how \in Retaggings}

InitEncryption ==
    /\ pc = "idle"
    /\ args = <<>>
    /\ ret = <<>>
    /\ NoRun

Called(stage, call, outcome) ==
    /\ pc' = stage
    /\ args' = Append(args, call)
    /\ ret' = Append(ret, outcome)

CallKeyToBytes ==
    /\ pc = "idle"
    /\ \E key_bits \in BitSeqsUpTo(MaxPackLen) \cup QuantumKeys, target_length \in PackLengths :
          Called("done",
                 [fn |-> "key_to_bytes", key_bits |-> key_bits,
                  target_length |-> target_length],
                 key_to_bytes(key_bits, target_length))
    /\ UNCHANGED <<runVars, files>>

CallDeriveKey ==
    /\ pc = "idle"
    /\ \E quantum_key \in QuantumKeys, salt \in Salts :
          Called("done",
                 [fn |-> "derive_key", quantum_key |-> quantum_key, salt |-> salt],
                 derive_key(quantum_key, salt))
    /\ UNCHANGED <<runVars, files>>

CallEncrypt ==
    /\ pc = "idle"
    /\ \E plaintext \in Plaintexts, quantum_key \in QuantumKeys,
          associated_data \in AssociatedData, iv \in IVs :
          LET outcome == encrypt(plaintext, quantum_key, associated_data, iv)
          IN  Called(IF outcome.raised # "" THEN "done" ELSE "encrypted",
                     [fn |-> "encrypt", plaintext |-> plaintext,
                      quantum_key |-> quantum_key, associated_data |-> associated_data],
                     outcome)
    /\ UNCHANGED <<runVars, files>>

CallDecrypt ==
    /\ pc = "encrypted"
    /\ args[1].fn = "encrypt"
    /\ \E quantum_key \in QuantumKeys, associated_data \in AssociatedData :
          \E m \in Messages(ret[1].value[1]) :
             \E outcome \in decrypt(m.ciphertext, m.iv, m.tag, quantum_key, associated_data) :
                Called("done",
                       [fn |-> "decrypt", ciphertext |-> m.ciphertext, iv |-> m.iv,
                        tag |-> m.tag, quantum_key |-> quantum_key,
                        associated_data |-> associated_data],
                       outcome)
    /\ UNCHANGED <<runVars, files>>

\* The test writes the input file.
WriteInput ==
    /\ pc = "idle"
    /\ pc' = "written"
    /\ \E plaintext \in Plaintexts : files' = open_wb(files, "test.txt", plaintext)
    /\ UNCHANGED <<args, ret, runVars>>

\* encrypt_file is called before or after the input file was written.
CallEncryptFile ==
    /\ pc \in {"idle", "written"}
    /\ \E quantum_key \in QuantumKeys, iv \in IVs :
          LET done == encrypt_file(files, "test.txt", "test.enc", quantum_key, iv)
          IN  /\ Called(IF done.ret.raised # "" THEN "done" ELSE "encrypted",
                        [fn |-> "encrypt_file", input_path |-> "test.txt",
                         output_path |-> "test.enc", quantum_key |-> quantum_key],
                        done.ret)
              /\ files' = done.files
    /\ UNCHANGED runVars

\* The encrypted file is changed between the two calls.
TamperFile ==
    /\ pc = "encrypted"
    /\ args[1].fn = "encrypt_file"
    /\ pc' = "tampered"
    /\ \E how \in {"truncated", "altered"} :
          files' = open_wb(files, "test.enc",
                           Tampered([ciphertext |-> files["test.enc"][1]], how).ciphertext)
    /\ UNCHANGED <<args, ret, runVars>>

CallDecryptFile ==
    /\ pc \in {"encrypted", "tampered"}
    /\ args[1].fn = "encrypt_file"
    /\ \E quantum_key \in QuantumKeys :
          \E m \in Messages([ciphertext |-> files["test.enc"][1],
                             iv |-> ret[1].value[1].iv, tag |-> ret[1].value[1].tag]) :
             /\ m.ciphertext = files["test.enc"][1]
             /\ \E done \in decrypt_file(files, "test.enc", "test_dec.txt", m.iv, m.tag,
                                         quantum_key) :
                   /\ Called("done",
                             [fn |-> "decrypt_file", input_path |-> "test.enc",
                              output_path |-> "test_dec.txt", iv |-> m.iv,
                              tag |-> m.tag, quantum_key |-> quantum_key],
                             done.ret)
                   /\ files' = done.files
    /\ UNCHANGED runVars

NextEncryption ==
    \/ CallKeyToBytes
    \/ CallDeriveKey
    \/ CallEncrypt
    \/ CallDecrypt
    \/ WriteInput
    \/ CallEncryptFile
    \/ TamperFile
    \/ CallDecryptFile

SpecEncryption == InitEncryption /\ [][NextEncryption]_vars

----------------------------------------------------------------------------
(* KeyManager (src/ncrypt/utils/key_manager.py)                            *)
(*                                                                         *)
(* A dict is a function from its names; a JSON file holds [json |-> obj],  *)
(* obj the object json.load gives back, which for lists of ints and dicts  *)
(* of strings to strings and ints is equal to the object dumped.  A        *)
(* timestamp is a number: the order of the numbers is the order of the     *)
(* ISO strings.                                                            *)

\* os.path.exists(path)
exists(fs, path) == fs[path] # <<>>

\* os.remove(path)
remove(fs, path) == [fs EXCEPT ![path] = <<>>]

\* json.dump(obj, f) on the file opened at path with mode 'w'
json_dump(fs, path, obj) == [fs EXCEPT ![path] = <<[json |-> obj]>>]

\* json.load(f) on the file opened at path
json_load(fs, path) == fs[path][1].json

\* hashlib.sha256(bytes(key)).hexdigest()
hash_key(key) == [sha256 |-> key]

\* d.update(other)
dict_update(d, other) ==
    [name \in DOMAIN d \cup DOMAIN other |->
        IF name \in DOMAIN other THEN other[name] ELSE d[name]]

\* metadata is None (<<>>) or <<dict>>; now is datetime.utcnow().
save_key(fs, key, key_id, metadata, now) ==
    [ret   |-> Return(filepath(key_id)),
     files |-> json_dump(fs, filepath(key_id),
                         [key      |-> key,
                          metadata |->
                             dict_update(IF metadata = <<>> THEN <<>> ELSE metadata[1],
                                         [key_id     |-> key_id,
                                          timestamp  |-> now,
                                          key_length |-> Len(key),
                                          key_hash   |-> hash_key(key)])])]

load_key(fs, key_id) ==
    IF ~exists(fs, filepath(key_id)) THEN Raise("FileNotFoundError")
    ELSE Return(json_load(fs, filepath(key_id)))

\* The key ids of the files of os.listdir(self.storage_dir) that end in
\* '.json'
listdir(fs) == {key_id \in KeyIds : exists(fs, filepath(key_id))}

\* The lists list_keys can return: the metadata of every key file, the
\* latest timestamp first; os.listdir gives the files in any order.
list_keys(fs) ==
    {keys \in [1..Cardinality(listdir(fs)) ->
                  {json_load(fs, filepath(key_id)).metadata : key_id \in listdir(fs)}] :
        /\ \A i, j \in DOMAIN keys : i # j => keys[i] # keys[j]
        /\ \A i, j \in DOMAIN keys : i < j => keys[i].timestamp >= keys[j].timestamp}

\* The file is removed and True is returned whether or not it exists.
delete_key_always(fs, key_id) ==
    [ret |-> Return(TRUE), files |-> remove(fs, filepath(key_id))]

delete_key(fs, key_id) ==
    IF exists(fs, filepath(key_id))
    THEN [ret |-> Return(TRUE), files |-> remove(fs, filepath(key_id))]
    ELSE [ret |-> Return(FALSE), files |-> fs]

----------------------------------------------------------------------------
(* Calls of KeyManager on one storage directory: up to MaxCalls calls of   *)
(* save_key and delete_key, then one call of load_key or list_keys.  args  *)
(* is the sequence of the calls made, ret the sequence of their outcomes.  *)

MaxCalls == 3

\* The keys saved
StoredKeys == {<<1>>, <<1, 0>>}

\* metadata: None, the dict of the test, and a dict with a timestamp, which
\* the docstring of save_key names as metadata of the caller.
Metadata == {<<>>, <<[protocol |-> "BB84"]>>, <<[protocol |-> "BB84", timestamp |-> 0]>>}

\* datetime.utcnow() at a call: the time of the call before or later.
Now == IF Len(args) = 0 THEN {1}
       ELSE {Len(args), Len(args) + 1}

InitKeys ==
    /\ pc = "idle"
    /\ args = <<>>
    /\ ret = <<>>
    /\ NoRun

CallSaveKey ==
    /\ pc = "idle"
    /\ Len(args) < MaxCalls
    /\ \E key \in StoredKeys, key_id \in KeyIds, metadata \in Metadata, now \in Now :
          LET done == save_key(files, key, key_id, metadata, now)
          IN  /\ Called("idle",
                        [fn |-> "save_key", key |-> key, key_id |-> key_id,
                         metadata |-> metadata],
                        done.ret)
              /\ files' = done.files
    /\ UNCHANGED runVars

CallDeleteKey ==
    /\ pc = "idle"
    /\ Len(args) < MaxCalls
    /\ \E key_id \in KeyIds :
          LET done == delete_key(files, key_id)
          IN  /\ Called("idle", [fn |-> "delete_key", key_id |-> key_id], done.ret)
              /\ files' = done.files
    /\ UNCHANGED runVars

CallLoadKey ==
    /\ pc = "idle"
    /\ \E key_id \in KeyIds :
          Called("done", [fn |-> "load_key", key_id |-> key_id], load_key(files, key_id))
    /\ UNCHANGED <<runVars, files>>

CallListKeys ==
    /\ pc = "idle"
    /\ \E keys \in list_keys(files) :
          Called("done", [fn |-> "list_keys"], Return(keys))
    /\ UNCHANGED <<runVars, files>>

NextKeys ==
    \/ CallSaveKey
    \/ CallDeleteKey
    \/ CallLoadKey
    \/ CallListKeys

SpecKeys == InitKeys /\ [][NextKeys]_vars

----------------------------------------------------------------------------
(* Transactions (src/ncrypt/transactions/privacy_modes.py)                 *)
(*                                                                         *)
(* An Optional value is <<>> (None) or <<v>>; an enum member is its value; *)
(* a SHA-256 digest is [sha256 |-> the data hashed].                       *)

PrivacyMode == {"transparent", "private", "accountable"}

TransactionOutput(txo_type, address, amount, commitment, encrypted_data) ==
    [txo_type |-> txo_type, address |-> address, amount |-> amount,
     commitment |-> commitment, encrypted_data |-> encrypted_data]

Transaction(tx_type, privacy_mode, inputs, outputs, tracking_key, signature) ==
    [tx_type |-> tx_type, privacy_mode |-> privacy_mode, inputs |-> inputs,
     outputs |-> outputs, tracking_key |-> tracking_key, timestamp |-> <<>>,
     signature |-> signature]

\* Transaction.compute_hash: the signature is not hashed.
compute_hash(transaction) ==
    [sha256 |-> [type         |-> transaction.tx_type,
                 privacy_mode |-> transaction.privacy_mode,
                 inputs       |-> transaction.inputs,
                 outputs      |-> transaction.outputs,
                 tracking_key |-> transaction.tracking_key,
                 timestamp    |-> transaction.timestamp]]

TransparentTransaction_create(sender_address, recipient_address, amount, inputs) ==
    Transaction("public", "transparent", inputs,
                <<TransactionOutput("public", <<recipient_address>>, <<amount>>,
                                    <<>>, <<>>)>>,
                <<>>, <<>>)

PrivateTransaction_create(inputs, encrypted_outputs, ring_signature) ==
    Transaction("private", "private", inputs,
                [i \in 1..Len(encrypted_outputs) |->
                    TransactionOutput("private", <<>>, <<>>, <<>>,
                                      <<encrypted_outputs[i]>>)],
                <<>>, ring_signature)

AccountableTransaction_create(inputs, recipient_address, amount, tracking_public_key, commitment) ==
    Transaction("accountable", "accountable", inputs,
                <<TransactionOutput("value_hidden", <<recipient_address>>, <<>>,
                                    <<commitment>>, <<>>)>>,
                tracking_public_key, <<>>)

encrypt_output(recipient, amount) == [sha256 |-> <<recipient, ":", amount>>]

create_commitment(amount) == [sha256 |-> <<amount>>]

\* privacy_mode is a member of PrivacyMode, so the ValueError of line 292
\* is not raised.
create_transaction(privacy_mode, sender, recipient, amount, inputs, tracking_key) ==
    IF privacy_mode = "transparent"
    THEN TransparentTransaction_create(sender, recipient, amount, inputs)
    ELSE IF privacy_mode = "private"
    THEN PrivateTransaction_create(inputs, <<encrypt_output(recipient, amount)>>, <<>>)
    ELSE AccountableTransaction_create(inputs, recipient, amount, tracking_key,
                                       create_commitment(amount))

\* The dict of lines 332-339
Revealed(transaction) ==
    [transaction_hash |-> compute_hash(transaction),
     sender           |-> "revealed_sender",
     recipient        |-> "revealed_recipient",
     amount           |-> "revealed_amount",
     timestamp        |-> transaction.timestamp,
     note             |-> "Revealed to authorized auditor"]

\* tracking_private_key is not read.
reveal_to_auditor(transaction, tracking_private_key) ==
    IF transaction.privacy_mode # "accountable" THEN <<>>
    ELSE IF transaction.tracking_key = <<>> THEN <<>>
    ELSE <<Revealed(transaction)>>

----------------------------------------------------------------------------
(* Calls of DAPOAFramework: create_transaction, then reveal_to_auditor on  *)
(* the transaction created.                                                *)

\* The key pairs of two auditors
TrackingKeyPairs ==
    {[public |-> "auditor_1_public", private |-> "auditor_1_private"],
     [public |-> "auditor_2_public", private |-> "auditor_2_private"]}

Addresses == {"alice", "bob"}

Amounts == {0, 5}

TxInputs == {<<>>, <<"txo_0">>}

InitTransactions ==
    /\ pc = "idle"
    /\ args = <<>>
    /\ ret = <<>>
    /\ NoRun
    /\ files = NoFiles

CallCreateTransaction ==
    /\ pc = "idle"
    /\ \E privacy_mode \in PrivacyMode, sender \in Addresses, recipient \in Addresses,
          amount \in Amounts, inputs \in TxInputs,
          tracking_key \in {<<>>} \cup {<<pair.public>> : pair \in TrackingKeyPairs} :
          Called("created",
                 [fn |-> "create_transaction", privacy_mode |-> privacy_mode,
                  sender |-> sender, recipient |-> recipient, amount |-> amount,
                  inputs |-> inputs, tracking_key |-> tracking_key],
                 Return(create_transaction(privacy_mode, sender, recipient, amount,
                                           inputs, tracking_key)))
    /\ UNCHANGED <<runVars, files>>

CallRevealToAuditor ==
    /\ pc = "created"
    /\ \E pair \in TrackingKeyPairs :
          Called("done",
                 [fn |-> "reveal_to_auditor", transaction |-> ret[Len(ret)].value[1],
                  tracking_private_key |-> pair.private],
                 Return(reveal_to_auditor(ret[Len(ret)].value[1], pair.private)))
    /\ UNCHANGED <<runVars, files>>

NextTransactions ==
    \/ CallCreateTransaction
    \/ CallRevealToAuditor

SpecTransactions == InitTransactions /\ [][NextTransactions]_vars

----------------------------------------------------------------------------
(* BraketQKD (src/ncrypt/braket/quantum_backend.py)                        *)

\* The lists run_batch_qkd can return, one measured bit per circuit.  The
\* local simulator runs the circuit of create_bb84_circuit exactly: with
\* the measuring basis equal to the preparing basis the measured bit is
\* the bit encoded, otherwise either bit; a quantum device can return
\* either bit for every circuit.
run_batch_qkd(use_local_simulator, bits, bases, measuring) ==
    {results \in BitSeqs(Len(bits)) :
        use_local_simulator =>
            \A i \in 1..Len(bits) : bases[i] = measuring[i] => results[i] = bits[i]}

RECURSIVE SiftedFrom(_, _, _, _)
\* The bits appended by the loop of lines 313-320 from position i on
SiftedFrom(bits, a_bases, b_bases, i) ==
    IF i > Len(bits) THEN <<>>
    ELSE (IF a_bases[i] = b_bases[i] THEN <<bits[i]>> ELSE <<>>)
         \o SiftedFrom(bits, a_bases, b_bases, i + 1)

\* get_device_info()["name"]
DeviceName(use_local_simulator) ==
    IF use_local_simulator THEN "Local Simulator" ELSE "provider"

\* Lines 322-351, for the two sifted keys and sample_size; None is <<>>.
BB84Outcome(n, threshold, sifted_alice, sifted_bob, sample, device) ==
    IF Len(sifted_alice) = 0 THEN Return(<<>>)
    ELSE IF sample = 0 THEN Raise("ZeroDivisionError")
    ELSE IF Gt(<<Cardinality({i \in 0..(sample - 1) :
                                 sifted_alice[i + 1] # sifted_bob[i + 1]}), sample>>,
               threshold)
    THEN Return(<<>>)
    ELSE Return(<<[final_key   |-> SubSeq(sifted_alice, sample + 1, Len(sifted_alice)),
                   key_length  |-> Len(sifted_alice) - sample,
                   error_rate  |-> <<Cardinality({i \in 0..(sample - 1) :
                                         sifted_alice[i + 1] # sifted_bob[i + 1]}), sample>>,
                   sifted_bits |-> Len(sifted_alice),
                   raw_bits    |-> n,
                   device      |-> device]>>)

\* a_bits, a_bases and b_bases are the draws of lines 305-307, b_bits the
\* list run_batch_qkd returned.
run_bb84(use_local_simulator, n, threshold, a_bits, a_bases, b_bases, b_bits) ==
    BB84Outcome(n, threshold,
                SiftedFrom(a_bits, a_bases, b_bases, 1),
                SiftedFrom(b_bits, a_bases, b_bases, 1),
                Len(SiftedFrom(a_bits, a_bases, b_bases, 1)) \div 2,
                DeviceName(use_local_simulator))

----------------------------------------------------------------------------
(* Single calls of BraketQKD.run_bb84 *)

MaxBraketBits == 3

RunBB84Args ==
    [fn : {"run_bb84"}, use_local_simulator : BOOLEAN, n_bits : 0..MaxBraketBits,
     error_threshold : {<<11, 100>>, <<1, 2>>}]

InitBraket ==
    /\ pc = "call"
    /\ args \in RunBB84Args
    /\ ret = <<>>
    /\ NoRun

\* ret keeps, next to the outcome, the values drawn and measured.
CallRunBB84 ==
    /\ pc = "call"
    /\ pc' = "return"
    /\ \E a_bits \in BitSeqs(args.n_bits), a_bases \in [1..args.n_bits -> Basis],
          b_bases \in [1..args.n_bits -> Basis] :
          \E b_bits \in run_batch_qkd(args.use_local_simulator, a_bits, a_bases, b_bases) :
              ret' = [alice_bits |-> a_bits, alice_bases |-> a_bases,
                      bob_bases |-> b_bases, bob_bits |-> b_bits,
                      outcome |-> run_bb84(args.use_local_simulator, args.n_bits,
                                           args.error_threshold, a_bits, a_bases,
                                           b_bases, b_bits)]
    /\ UNCHANGED <<args, runVars, files>>

NextBraket == CallRunBB84

SpecBraket == InitBraket /\ [][NextBraket]_vars

----------------------------------------------------------------------------
(* Properties of run_protocol, checked under Spec *)

Range(x) == {x[i] : i \in 1..Len(x)}

\* The j-th smallest element of a finite set S of integers.
Nth(S, j) == CHOOSE i \in S : Cardinality({k \in S : k < i}) = j - 1

\* The elements of x at the positions in S, in increasing order of position.
Pick(x, S) == [j \in 1..Cardinality(S) |-> x[Nth(S, j)]]

IsPrefix(x, y) == Len(x) <= Len(y) /\ \A i \in 1..Len(x) : x[i] = y[i]

ErrorRateKnown == error_rate # <<>>

WithinThreshold == Leq(error_rate, error_threshold)

\* C1: whenever the estimated error rate exceeds error_threshold, the run
\* returns None: no QKDResult exists, privacy_amplification was never
\* executed and no final key of any length was produced.
C1_RejectedRunYieldsNoKey ==
    (ErrorRateKnown /\ Gt(error_rate, error_threshold)) =>
        /\ result = <<>>
        /\ final_key = <<>>
        /\ "Amplified" \notin Range(visited)
        /\ pc \in {"ErrorChecked", "Aborted", "Done"}

C1_Witness ==
    /\ pc = "Done"
    /\ ErrorRateKnown
    /\ Gt(error_rate, error_threshold)
    /\ result = <<>>

\* C2: a run that passed error estimation is accepted (goes on to privacy
\* amplification and returns a QKDResult) if and only if
\* error_rate <= error_threshold; equality is accepted.
C2_AcceptedIffWithinThreshold ==
    (ErrorRateKnown /\ pc # "ErrorChecked") =>
        /\ ("Amplified" \in Range(visited)) <=> WithinThreshold
        /\ pc = "Done" => ((result # <<>>) <=> WithinThreshold)

C2_Witness ==
    /\ pc = "Done"
    /\ result # <<>>
    /\ ErrorRateKnown
    /\ error_rate[1] > 0
    /\ error_rate[1] * error_threshold[2] = error_threshold[1] * error_rate[2]

ChainAccepted ==
    <<"Init", "Prepared", "Measured", "Sifted", "ErrorChecked", "Amplified", "Done">>

ChainRejected ==
    <<"Init", "Prepared", "Measured", "Sifted", "ErrorChecked", "Aborted", "Done">>

ChainEmptySift ==
    <<"Init", "Prepared", "Measured", "Sifted", "Aborted", "Done">>

\* C3 as stated: every run moves along Init, Prepared, Measured, Sifted,
\* ErrorChecked, then Aborted or Amplified, then Done, skipping no stage.
C3_NoStageSkipped ==
    \/ IsPrefix(visited, ChainAccepted)
    \/ IsPrefix(visited, ChainRejected)

\* C3, amended: the stages are passed in the order Init, Prepared, Measured,
\* Sifted, then either Aborted at once (only when the sifted key is empty)
\* or ErrorChecked followed by Aborted or Amplified, then Done.  No stage is
\* repeated, error estimation follows a non-empty sift, privacy
\* amplification follows an accepting gate, an aborted run never reaches
\* Amplified, and a run that estimate_error_rate leaves by an exception
\* stops at Sifted.
C3_StageOrder ==
    /\ pc = visited[Len(visited)]
    /\ \/ IsPrefix(visited, ChainAccepted)
       \/ IsPrefix(visited, ChainRejected)
       \/ IsPrefix(visited, ChainEmptySift) /\ alice_sifted = <<>>
    /\ "ErrorChecked" \in Range(visited) => (alice_sifted # <<>> /\ ErrorRateKnown)
    /\ "Amplified" \in Range(visited) => WithinThreshold
    /\ raised # "" => pc = "Sifted"

C3_Witness ==
    /\ pc = "Done"
    /\ n_bits > 0
    /\ visited = ChainEmptySift

\* C10: every QKDResult returned has key_length = len(final_key) and
\* discarded_bits = n_bits - key_length; raw_key holds the n_bits raw bits
\* and sifted_key is Alice's sifted key.
C10_ResultBookkeeping ==
    (pc = "Done" /\ result # <<>>) =>
        LET r == result[1]
        IN  /\ r.key_length = Len(r.final_key)
            /\ r.discarded_bits = n_bits - r.key_length
            /\ Len(r.raw_key) = n_bits
            /\ r.raw_key = alice_bits
            /\ r.sifted_key = Pick(r.raw_key,
                                   {i \in 1..n_bits : alice_bases[i] = bob_bases[i]})

C10_Witness ==
    /\ pc = "Done"
    /\ result # <<>>
    /\ result[1].key_length > 0
    /\ result[1].discarded_bits > 0

----------------------------------------------------------------------------
(* Properties of sift_keys, checked under SpecSift *)

MatchingPositions == 
    {i \in 1..Len(args.alice_bases) : args.alice_bases[i] = args.bob_bases[i]}

\* C4: sift_keys returns two sequences of equal length m, the number of
\* positions where the bases agree; their j-th elements are Alice's and
\* Bob's bit at the j-th matching position, the matching positions taken
\* in increasing order, and no other position contributes.
C4_SiftKeepsMatchingPositions ==
    pc = "return" =>
        LET m == Cardinality(MatchingPositions)
        IN  /\ Len(ret.alice_sifted) = m
            /\ Len(ret.bob_sifted) = m
            /\ \A j \in 1..m :
                   /\ Nth(MatchingPositions, j) \in MatchingPositions
                   /\ j > 1 => Nth(MatchingPositions, j - 1) < Nth(MatchingPositions, j)
                   /\ ret.alice_sifted[j] = args.alice_bits[Nth(MatchingPositions, j)]
                   /\ ret.bob_sifted[j] = args.bob_bits[Nth(MatchingPositions, j)]

C4_Witness ==
    /\ pc = "return"
    /\ Len(ret.alice_sifted) = 2
    /\ Len(args.alice_bits) = 3
    /\ args.alice_bases[2] # args.bob_bases[2]
    /\ ret.alice_sifted # ret.bob_sifted
    /\ ret.alice_sifted[1] # ret.alice_sifted[2]

----------------------------------------------------------------------------
(* Properties of estimate_error_rate, checked under SpecEstimate *)

KeyIndices == 0..(Len(args.alice_key) - 1)

\* The sample size the call works with: len(alice_key) // 2 for None.
EffectiveSampleSize ==
    IF args.sample_size = <<>> THEN Len(args.alice_key) \div 2 ELSE args.sample_size[1]

Sampled == Range(ret.check_indices)

Kept == Range(ret.keep_indices)

\* C5: with sample_size < len(alice_key) the sampled and the kept indices
\* are disjoint and cover every index of the key exactly once; the
\* remaining keys are both parties' bits at the complement of the sample in
\* their original order, len(alice_key) - sample_size long.
C5_SampleAndRemainderPartitionKey ==
    (pc = "return" /\ EffectiveSampleSize < Len(args.alice_key)) =>
        /\ Sampled \cap Kept = {}
        /\ Sampled \cup Kept = KeyIndices
        /\ Cardinality(Sampled) = Len(ret.check_indices)
        /\ Cardinality(Kept) = Len(ret.keep_indices)
        /\ ret.raised = "" =>
               LET complement == {i + 1 : i \in KeyIndices \ Sampled}
               IN  /\ ret.remaining_alice = Pick(args.alice_key, complement)
                   /\ ret.remaining_bob = Pick(args.bob_key, complement)
                   /\ Len(ret.remaining_alice) = Len(args.alice_key) - EffectiveSampleSize
                   /\ Len(ret.remaining_bob) = Len(args.alice_key) - EffectiveSampleSize

C5_Witness ==
    /\ pc = "return"
    /\ ret.raised = ""
    /\ Len(ret.check_indices) = 2
    /\ ret.check_indices[1] > ret.check_indices[2]
    /\ Len(ret.remaining_alice) = 2
    /\ ret.remaining_alice # ret.remaining_bob
    /\ ret.remaining_alice[1] # ret.remaining_alice[2]

\* C6: the returned error rate is the number of sampled indices at which
\* the keys differ, divided by sample_size; the sample is sample_size
\* distinct indices of the key, so the rate lies in [0, 1] and depends on
\* the sampled positions only.
C6_ErrorRateIsSampleMismatchFraction ==
    (pc = "return" /\ ret.raised = "") =>
        /\ Sampled \subseteq KeyIndices
        /\ Cardinality(Sampled) = EffectiveSampleSize
        /\ ret.error_rate =
               <<Cardinality({i \in Sampled : args.alice_key[i + 1] # args.bob_key[i + 1]}),
                 EffectiveSampleSize>>
        /\ ret.error_rate[2] > 0
        /\ 0 <= ret.error_rate[1]
        /\ ret.error_rate[1] <= ret.error_rate[2]

C6_Witness ==
    /\ pc = "return"
    /\ ret.raised = ""
    /\ ret.error_rate = <<1, 2>>
    /\ \E i \in KeyIndices \ Sampled : args.alice_key[i + 1] # args.bob_key[i + 1]

\* C7: with sample_size >= len(alice_key) the call fails with the
\* ValueError of the sample-size check before any index is sampled, and
\* yields no error rate and no remaining keys; with
\* sample_size < len(alice_key) it never raises that error.
C7_InvalidSampleSizeRejected ==
    pc = "return" =>
        /\ EffectiveSampleSize >= Len(args.alice_key) =>
               /\ ret.raised = "ValueError"
               /\ ret.check_indices = <<>>
               /\ ret.error_rate = <<>>
               /\ ret.remaining_alice = <<>>
               /\ ret.remaining_bob = <<>>
        /\ EffectiveSampleSize < Len(args.alice_key) => ret.raised # "ValueError"

C7_Witness ==
    /\ pc = "return"
    /\ ret.raised = "ValueError"
    /\ Len(args.alice_key) > 1
    /\ EffectiveSampleSize = Len(args.alice_key)

----------------------------------------------------------------------------
(* Properties of privacy_amplification, checked under SpecAmplify *)

\* C8: for a compression factor f >= 0 the result is a bit sequence of
\* length int(len(key) * f), the floor of the double-precision product; the
\* empty key gives the empty sequence for every f, and so does every call
\* whose new length is 0.
C8_AmplifiedLength ==
    pc = "return" =>
        /\ \A i \in 1..Len(ret) : ret[i] \in Bit
        /\ ~args.compression_factor.neg =>
               Len(ret) = IntOfProduct(Len(args.key), args.compression_factor)
        /\ args.key = <<>> => ret = <<>>
        /\ IntOfProduct(Len(args.key), args.compression_factor) = 0 => ret = <<>>

C8_Witness ==
    /\ pc = "return"
    /\ args.compression_factor = Double_0_7
    /\ Len(args.key) > MaxAmpLen
    /\ Len(ret) > 0
    /\ Len(ret) < Len(args.key)
    /\ \E i \in 1..Len(ret) : ret[i] = 1

\* 0 < x <= 1 for a double x: m <= 2^e.
InUnitInterval(x) ==
    /\ ~x.neg
    /\ x.m # <<>>
    /\ \/ Len(x.m) <= x.e
       \/ Len(x.m) = x.e + 1 /\ \A i \in 1..x.e : x.m[i] = 0

OnesIn(key, from, to) ==
    Cardinality({j \in 0..(Len(key) - 1) : from <= j /\ j < to /\ key[j + 1] = 1})

\* C26: for new_length = int(len(key) * f) > 0 and step = len(key) //
\* new_length, output bit i (0 <= i < new_length) is the XOR of key[j] for
\* i * step <= j < min(i * step + step, len(key)); the result is a function
\* of key and f, and an empty segment gives the bit 0.
C26_OutputBitIsSegmentXor ==
    (pc = "return" /\ NewLength(args.key, args.compression_factor) > 0) =>
        LET new_length == NewLength(args.key, args.compression_factor)
            step       == Len(args.key) \div new_length
        IN  /\ Len(ret) = new_length
            /\ \A i \in 0..(new_length - 1) :
                   /\ ret[i + 1] = OnesIn(args.key, i * step,
                                          Min(i * step + step, Len(args.key))) % 2
                   /\ i * step >= Min(i * step + step, Len(args.key)) => ret[i + 1] = 0

\* A segment with two 1 bits gives 0 and another segment gives 1.
C26_Witness ==
    /\ pc = "return"
    /\ NewLength(args.key, args.compression_factor) > 0
    /\ LET step == Len(args.key) \div NewLength(args.key, args.compression_factor)
       IN  /\ \E i \in 0..(Len(ret) - 1) :
                  ret[i + 1] = 0 /\ OnesIn(args.key, i * step, i * step + step) = 2
           /\ \E i \in 0..(Len(ret) - 1) : ret[i + 1] = 1

----------------------------------------------------------------------------
(* Measurement *)

\* The probability measure_qubit gave to the outcome b.
ProbabilityOf(m, b) == IF b = 0 THEN m.prob_0 ELSE m.prob_1

\* qs with the bit of qubit i flipped
WithBitFlipped(qs, i) ==
    [j \in 1..Len(qs) |-> IF j = i THEN <<1 - qs[j][1], qs[j][2]>> ELSE qs[j]]

ReturnedFrom(fn) == pc = "return" /\ args.fn = fn

\* C11: with noise level 0 and the measuring basis equal to the preparing
\* basis, BB84Protocol.measure_qubits returns Alice's bit, and
\* QuantumSimulator, whatever its noise model, gives the other bit the
\* probability 0 and returns Alice's bit.
C11_MatchingBasisReproducesBit ==
    /\ (ReturnedFrom("measure_qubits") /\ args.noise_level = <<0, 1>>) =>
           \A i \in 1..Len(ret) :
               args.qubits[i][2] = args.bases[i] => ret[i] = args.qubits[i][1]
    /\ (ReturnedFrom("simulate_qkd_exchange") /\ args.noise_level.m = <<>>) =>
           \A i \in 1..Len(ret.bob_results) :
               args.alice_bases[i] = args.bob_bases[i] =>
                   /\ ProbabilityOf(ret.measured[i], 1 - args.alice_bits[i]).m = <<>>
                   /\ DEq(ProbabilityOf(ret.measured[i], args.alice_bits[i]), Double_1_0)
                   /\ ret.bob_results[i] = args.alice_bits[i]

\* A |-> state prepared and measured in the diagonal basis by a simulator
\* with depolarizing noise at level 0.
C11_Witness ==
    /\ ReturnedFrom("simulate_qkd_exchange")
    /\ args.noise_model = "depolarizing"
    /\ args.noise_level.m = <<>>
    /\ \E i \in 1..Len(ret.bob_results) :
           /\ args.alice_bases[i] = DIAGONAL
           /\ args.bob_bases[i] = DIAGONAL
           /\ args.alice_bits[i] = 1
           /\ ret.bob_results[i] = 1

\* C12: with noise level 0 and the measuring basis different from the
\* preparing basis, BB84Protocol.measure_qubits can return either bit and
\* returns the same bit for the same draw when Alice's bit is flipped, and
\* QuantumSimulator gives each outcome the probability 1/2 exactly.
C12_MismatchedBasisIsCoinFlip ==
    /\ (ReturnedFrom("measure_qubits") /\ args.noise_level = <<0, 1>>) =>
           \A i \in 1..Len(ret) :
               args.qubits[i][2] # args.bases[i] =>
                   LET draws == MeasureDraws(args.qubits, args.bases, args.noise_level)
                   IN  /\ \A b \in Bit : \E d \in draws :
                              measure_qubits(args.qubits, args.bases, d)[i] = b
                       /\ \A d \in draws :
                              measure_qubits(WithBitFlipped(args.qubits, i), args.bases, d)[i]
                                  = measure_qubits(args.qubits, args.bases, d)[i]
    /\ (ReturnedFrom("simulate_qkd_exchange") /\ args.noise_level.m = <<>>) =>
           \A i \in 1..Len(ret.bob_results) :
               args.alice_bases[i] # args.bob_bases[i] =>
                   /\ DEq(ret.measured[i].prob_0, Double_0_5)
                   /\ DEq(ret.measured[i].prob_1, Double_0_5)
                   /\ ret.measured[i].results = Bit

\* Bob measures a 1 sent in the diagonal basis in the rectilinear basis
\* and reads 0.
C12_Witness ==
    /\ ReturnedFrom("measure_qubits")
    /\ args.noise_level = <<0, 1>>
    /\ \E i \in 1..Len(ret) :
           /\ args.qubits[i] = <<1, DIAGONAL>>
           /\ args.bases[i] = RECTILINEAR
           /\ ret[i] = 0

----------------------------------------------------------------------------
(* Aborts and failures of run_protocol, checked under Spec *)

SiftDone == "Sifted" \in Range(visited)

\* C13: when sifting leaves no matching-basis position (n_bits = 0
\* included), run_protocol takes the empty-sift abort: nothing is raised,
\* error estimation, the security gate and privacy amplification are not
\* executed, and the run returns None.
C13_EmptySiftAbortsQuietly ==
    (SiftDone /\ alice_sifted = <<>>) =>
        /\ raised = ""
        /\ IsPrefix(visited, ChainEmptySift)
        /\ pc = "Sifted" => ENABLED EmptySiftAbort
        /\ sample_size = 0 /\ check_indices = <<>> /\ error_rate = <<>>
        /\ alice_final = <<>> /\ bob_final = <<>> /\ final_key = <<>>
        /\ result = <<>>

C13_Witness ==
    /\ pc = "Done"
    /\ n_bits = 0
    /\ visited = ChainEmptySift
    /\ raised = ""
    /\ result = <<>>

WellFormedRatio ==
    /\ ~check_sample_ratio.neg
    /\ check_sample_ratio # Double_0_0
    /\ IntOfProduct(1, check_sample_ratio) = 0

\* C15: with n_bits >= 0, noise_level in [0, 0.5] and check_sample_ratio
\* strictly between 0 and 1, run_protocol raises nothing, whatever the
\* draws and whatever the length of the sifted key.
C15_WellFormedRunNeverRaises ==
    WellFormedRatio => raised = ""

\* The outcome of a finished run, read from the stages it passed.
Outcome ==
    IF raised # "" THEN "Raised"
    ELSE IF visited = ChainAccepted THEN "Success"
    ELSE IF visited = ChainRejected THEN "SecurityAbort"
    ELSE IF visited = ChainEmptySift THEN "EmptySiftAbort"
    ELSE "Running"

\* The draws of measure_qubits that produce Bob's bits of this run.
DrawsOfRun ==
    {d \in MeasureDraws(qubits, bob_bases, noise_level) :
        measure_qubits(qubits, bob_bases, d) = bob_bits}

\* C16: the outcome of a finished run and every field of a returned
\* QKDResult are determined by n_bits, check_sample_ratio, error_threshold
\* and the values the random source returned (noise_level acts through
\* the draws of measure_qubits only): they equal run_protocol applied to
\* exactly these, so two runs that agree on them end alike.
C16_ResultDeterminedByDraws ==
    (pc = "Done" \/ raised # "") =>
        /\ DrawsOfRun # {}
        /\ \A d \in DrawsOfRun :
               LET run == run_protocol(n_bits, check_sample_ratio, error_threshold,
                                       alice_bits, alice_bases, bob_bases, d,
                                       check_indices)
               IN  /\ Outcome = run.outcome
                   /\ raised = run.raised
                   /\ result = run.result

C16_Witness ==
    /\ pc = "Done"
    /\ Outcome = "Success"
    /\ result[1].key_length > 0
    /\ result[1].error_rate[1] = 0
    /\ \E i \in 1..n_bits : alice_bases[i] = bob_bases[i] /\ alice_bits[i] # bob_bits[i]

\* C17: in every successful run Bob's remaining key, amplified like
\* Alice's, is the returned final_key.
C17_PartiesShareFinalKey ==
    (pc = "Done" /\ result # <<>>) =>
        privacy_amplification(bob_final, DefaultCompressionFactor) = result[1].final_key

----------------------------------------------------------------------------
(* Properties of QuantumEncryption, checked under SpecEncryption *)

\* The value of the eight bits of key_bits from bit 8k on, the first of
\* them the most significant.
PackedMsbFirst(key_bits, k) ==
    128 * key_bits[8 * k + 1] + 64 * key_bits[8 * k + 2] + 32 * key_bits[8 * k + 3]
        + 16 * key_bits[8 * k + 4] + 8 * key_bits[8 * k + 5] + 4 * key_bits[8 * k + 6]
        + 2 * key_bits[8 * k + 7] + key_bits[8 * k + 8]

\* C18: key_to_bytes(key_bits, L) raises ValueError iff key_bits has fewer
\* than 8 * L bits; otherwise it returns exactly L bytes, byte k being bits
\* 8k .. 8k+7 of key_bits packed most significant bit first, whatever the
\* bits beyond the first 8 * L.  derive_key, encrypt and decrypt therefore
\* raise ValueError, and return nothing, for a quantum key of fewer than
\* 256 bits.
C18_KeyToBytesContract ==
    \A c \in 1..Len(ret) :
        /\ args[c].fn = "key_to_bytes" =>
              /\ ret[c].raised = "ValueError"
                    <=> Len(args[c].key_bits) < 8 * args[c].target_length
              /\ ret[c].raised # "ValueError" =>
                    /\ ret[c].raised = ""
                    /\ Len(ret[c].value[1]) = args[c].target_length
                    /\ \A k \in 0..(args[c].target_length - 1) :
                          ret[c].value[1][k + 1] = Byte(PackedMsbFirst(args[c].key_bits, k))
        /\ (/\ args[c].fn \in {"derive_key", "encrypt", "decrypt"}
            /\ Len(args[c].quantum_key) < 256) =>
              /\ ret[c].raised = "ValueError"
              /\ ret[c].value = <<>>

\* 32 bytes are returned for a key of more than 256 bits.
C18_Witness ==
    /\ Len(ret) = 1
    /\ args[1].fn = "key_to_bytes"
    /\ args[1].target_length = KeyBytes
    /\ Len(args[1].key_bits) > 8 * KeyBytes
    /\ ret[1].raised = ""
    /\ Len(ret[1].value[1]) = KeyBytes
    /\ ret[1].value[1][1] = Byte(170)

\* The second call is given the message and the key of the first.
SameMessage ==
    /\ args[2].ciphertext = ret[1].value[1].ciphertext
    /\ args[2].iv = ret[1].value[1].iv
    /\ args[2].tag = ret[1].value[1].tag
    /\ args[2].quantum_key = args[1].quantum_key

\* The encrypted file holds the ciphertext of the input file, and
\* decrypt_file is given the iv, the tag and the key of encrypt_file.
SameFileMessage ==
    /\ files["test.enc"] =
          <<CBC_encrypt(derive_key(args[1].quantum_key, <<>>).value[1],
                        ret[1].value[1].iv, PKCS7_pad(files["test.txt"][1]))>>
    /\ args[2].iv = ret[1].value[1].iv
    /\ args[2].tag = ret[1].value[1].tag
    /\ args[2].quantum_key = args[1].quantum_key

\* C19: encryption round-trips.  decrypt, called with the ciphertext, iv
\* and tag that encrypt returned for a plaintext and with the same quantum
\* key (of 256 bits or more), returns exactly that plaintext; decrypt_file,
\* called on the file encrypt_file wrote with the iv and tag it returned,
\* writes a file with the contents of the input file.
C19_EncryptionRoundTrips ==
    /\ (/\ Len(ret) = 2
        /\ args[1].fn = "encrypt"
        /\ args[2].fn = "decrypt"
        /\ SameMessage) => ret[2] = Return(args[1].plaintext)
    /\ (/\ Len(ret) = 2
        /\ args[1].fn = "encrypt_file"
        /\ args[2].fn = "decrypt_file"
        /\ SameFileMessage) =>
          /\ ret[2] = Return(<<>>)
          /\ files["test.txt"] # <<>>
          /\ files["test_dec.txt"] = files["test.txt"]

\* A plaintext of one block of bytes 0x10 came back from decrypt.
C19_Witness ==
    /\ Len(ret) = 2
    /\ args[1].fn = "encrypt"
    /\ args[2].fn = "decrypt"
    /\ SameMessage
    /\ Len(args[1].quantum_key) > 8 * KeyBytes
    /\ args[1].plaintext = [i \in 1..BlockSize |-> Byte(BlockSize)]
    /\ Len(args[2].ciphertext) = 2 * BlockSize
    /\ ret[2] = Return(args[1].plaintext)

\* The key that decrypt derives from the quantum key it is given
SuppliedKey == derive_key(args[2].quantum_key, <<>>)

\* The tag differs from the HMAC of iv + ciphertext under that key.
TagMismatch(ciphertext) ==
    /\ SuppliedKey.raised = ""
    /\ args[2].tag # hmac_new(SuppliedKey.value[1], args[2].iv \o ciphertext)

\* decrypt is given the message of encrypt with another ciphertext, iv or
\* tag, or with a quantum key from which another key is derived.
OneModified ==
    /\ SuppliedKey.raised = ""
    /\ \/ /\ args[2].ciphertext # ret[1].value[1].ciphertext
          /\ args[2].iv = ret[1].value[1].iv
          /\ args[2].tag = ret[1].value[1].tag
       \/ /\ args[2].ciphertext = ret[1].value[1].ciphertext
          /\ args[2].iv # ret[1].value[1].iv
          /\ args[2].tag = ret[1].value[1].tag
       \/ /\ args[2].ciphertext = ret[1].value[1].ciphertext
          /\ args[2].iv = ret[1].value[1].iv
          /\ args[2].tag # ret[1].value[1].tag
       \/ /\ args[2].ciphertext = ret[1].value[1].ciphertext
          /\ args[2].iv = ret[1].value[1].iv
          /\ args[2].tag = ret[1].value[1].tag
          /\ SuppliedKey # derive_key(args[1].quantum_key, <<>>)

\* C20: decrypt verifies the tag before it decrypts.  When the tag it is
\* given differs from the HMAC of iv + ciphertext under the key derived
\* from the quantum key it is given, as it does for another key or for a
\* changed ciphertext, iv or tag, decrypt raises ValueError and returns no
\* plaintext, and decrypt_file then writes no output file.
C20_TagVerifiedBeforeDecrypting ==
    /\ (/\ Len(ret) = 2
        /\ args[2].fn = "decrypt"
        /\ TagMismatch(args[2].ciphertext)) =>
          /\ ret[2].raised = "ValueError"
          /\ ret[2].value = <<>>
    /\ (/\ Len(ret) = 2
        /\ args[2].fn = "decrypt"
        /\ OneModified) => TagMismatch(args[2].ciphertext)
    /\ (/\ Len(ret) = 2
        /\ args[2].fn = "decrypt_file"
        /\ TagMismatch(files["test.enc"][1])) =>
          /\ ret[2].raised = "ValueError"
          /\ ret[2].value = <<>>
          /\ files["test_dec.txt"] = <<>>

\* decrypt_file was given a key of 256 bits other than the key of
\* encrypt_file, and wrote nothing.
C20_Witness ==
    /\ Len(ret) = 2
    /\ args[2].fn = "decrypt_file"
    /\ args[2].iv = ret[1].value[1].iv
    /\ args[2].tag = ret[1].value[1].tag
    /\ Len(args[2].quantum_key) = 8 * KeyBytes
    /\ args[2].quantum_key # args[1].quantum_key
    /\ TagMismatch(files["test.enc"][1])
    /\ ret[2] = Raise("ValueError")
    /\ files["test_dec.txt"] = <<>>

\* C21: the associated_data given to encrypt is authenticated.  decrypt,
\* called with the ciphertext, iv and tag that encrypt returned and with
\* the same quantum key but with another associated_data value, raises
\* ValueError instead of returning the plaintext.
C21_AssociatedDataAuthenticated ==
    (/\ Len(ret) = 2
     /\ args[1].fn = "encrypt"
     /\ args[2].fn = "decrypt"
     /\ SameMessage
     /\ args[2].associated_data # args[1].associated_data) =>
        /\ ret[2].raised = "ValueError"
        /\ ret[2].value = <<>>

----------------------------------------------------------------------------
(* Properties of KeyManager, checked under SpecKeys *)

\* The calls of save_key and delete_key for key_id made before call c
ChangesBefore(c, key_id) ==
    {i \in 1..(c - 1) : args[i].fn \in {"save_key", "delete_key"} /\ args[i].key_id = key_id}

\* The last of them
LastChange(c, key_id) ==
    CHOOSE i \in ChangesBefore(c, key_id) : \A j \in ChangesBefore(c, key_id) : j <= i

\* A key is stored under key_id before call c: key_id was saved and not
\* deleted since.
StoredBefore(c, key_id) ==
    /\ ChangesBefore(c, key_id) # {}
    /\ args[LastChange(c, key_id)].fn = "save_key"

\* The dict the caller gave to a call of save_key
CallerMetadata(call) == IF call.metadata = <<>> THEN <<>> ELSE call.metadata[1]

\* C22: after any sequence of save_key and delete_key, load_key(id)
\* returns the key most recently saved under id, with metadata.key_id = id,
\* metadata.key_length = len(key) and the metadata entries of the caller,
\* if id was saved and not deleted since; otherwise it raises
\* FileNotFoundError.
C22_LoadReturnsLastSaved ==
    \A c \in 1..Len(ret) :
        args[c].fn = "load_key" =>
            IF StoredBefore(c, args[c].key_id)
            THEN LET saved == args[LastChange(c, args[c].key_id)]
                 IN  /\ ret[c].raised = ""
                     /\ ret[c].value[1].key = saved.key
                     /\ ret[c].value[1].metadata.key_id = args[c].key_id
                     /\ ret[c].value[1].metadata.key_length = Len(saved.key)
                     /\ \A name \in DOMAIN CallerMetadata(saved) :
                           ret[c].value[1].metadata[name] = CallerMetadata(saved)[name]
            ELSE ret[c] = Raise("FileNotFoundError")

\* The key ids under which a key is stored before call c
StoredIds(c) == {key_id \in KeyIds : StoredBefore(c, key_id)}

\* The call being made in a step, and its outcome
ThisCall == args'[Len(args')]
ThisOutcome == ret'[Len(ret')]

\* C23: delete_key(id) returns True exactly when a key is stored under id,
\* removes that key and leaves every other key file as it is; list_keys
\* returns exactly one metadata entry for each key id that is stored
\* (saved and not deleted since), however often the id was saved.
C23_DeleteRemovesOneKeyAndListIsExact ==
    [][Len(args') = Len(args) + 1 =>
          /\ ThisCall.fn = "delete_key" =>
                /\ ThisOutcome = Return(StoredBefore(Len(args'), ThisCall.key_id))
                /\ ~exists(files', filepath(ThisCall.key_id))
                /\ \A other \in KeyIds \ {ThisCall.key_id} :
                      files'[filepath(other)] = files[filepath(other)]
          /\ ThisCall.fn = "list_keys" =>
                /\ ThisOutcome.raised = ""
                /\ Len(ThisOutcome.value[1]) = Cardinality(StoredIds(Len(args')))
                /\ \A key_id \in StoredIds(Len(args')) :
                      Cardinality({i \in DOMAIN ThisOutcome.value[1] :
                                      ThisOutcome.value[1][i].key_id = key_id}) = 1
                /\ \A i \in DOMAIN ThisOutcome.value[1] :
                      \E key_id \in StoredIds(Len(args')) :
                          ThisOutcome.value[1][i] = json_load(files, filepath(key_id)).metadata]_vars

\* Keys were saved under two key ids, delete_key removed one of them and
\* returned True, and list_keys then returned the one entry of the other.
C23_Witness ==
    /\ Len(args) = MaxCalls + 1
    /\ args[Len(args)].fn = "list_keys"
    /\ Len(ret[Len(ret)].value[1]) = 1
    /\ \E c \in 1..MaxCalls : args[c].fn = "delete_key" /\ ret[c] = Return(TRUE)
    /\ \E c, d \in 1..MaxCalls :
          c < d /\ args[c].fn = "save_key" /\ args[d].fn = "save_key"
                /\ args[c].key_id # args[d].key_id

(* Properties of QuantumSimulator.estimate_channel_quality, checked under  *)
(* SpecMeasure                                                             *)

NoNoiseModel == args.noise_model = "None"

ExactExchange ==
    (ReturnedFrom("simulate_qkd_exchange") /\ NoNoiseModel
        /\ args.bob_bases = args.alice_bases) =>
            ret.bob_results = args.alice_bits

PerfectChannel(outcome) ==
    /\ outcome.raised = ""
    /\ outcome.value[1].error_rate.m = <<>>
    /\ DEq(outcome.value[1].fidelity, Double_1_0)
    /\ outcome.value[1].status = "good"

\* C24 as stated: without a noise model simulate_qkd_exchange with
\* bob_bases equal to alice_bases returns alice_bits for every noise level,
\* and estimate_channel_quality always reports error_rate 0, fidelity 1 and
\* status 'good'.
C24_ChannelAlwaysPerfect ==
    /\ ExactExchange
    /\ (ReturnedFrom("estimate_channel_quality") /\ NoNoiseModel) =>
           PerfectChannel(ret.outcome)

\* C24, amended: estimate_channel_quality reports error_rate 0, fidelity 1
\* and status 'good' for n_test_qubits >= 1, and raises ZeroDivisionError
\* for n_test_qubits = 0.
C24_ChannelPerfectForTestQubits ==
    /\ ExactExchange
    /\ (ReturnedFrom("estimate_channel_quality") /\ NoNoiseModel) =>
           IF args.n_test_qubits >= 1 THEN PerfectChannel(ret.outcome)
           ELSE ret.outcome = Raise("ZeroDivisionError")

\* Two test qubits, one of them diagonal with bit 1, at noise level 0.01
\* without a noise model.
C24_Witness ==
    /\ ReturnedFrom("estimate_channel_quality")
    /\ NoNoiseModel
    /\ args.noise_level = Double_0_01
    /\ args.n_test_qubits = 2
    /\ \E i \in 1..2 : ret.bases[i] = DIAGONAL /\ ret.alice_bits[i] = 1
    /\ PerfectChannel(ret.outcome)

(* Properties of DAPOAFramework, checked under SpecTransactions *)

\* The private key is the one of the pair of the public key.
Corresponds(private, public) ==
    \E pair \in TrackingKeyPairs : pair.private = private /\ pair.public = public

\* C25: reveal_to_auditor returns None when the transaction is not in
\* accountable mode, when it carries no tracking key, and when the
\* tracking_private_key supplied does not correspond to the tracking key
\* of the transaction.
C25_RevealOnlyToAuthorizedAuditor ==
    \A c \in 1..Len(ret) :
        (/\ args[c].fn = "reveal_to_auditor"
         /\ \/ args[c].transaction.privacy_mode # "accountable"
            \/ args[c].transaction.tracking_key = <<>>
            \/ ~Corresponds(args[c].tracking_private_key,
                            args[c].transaction.tracking_key[1]))
            => ret[c] = Return(<<>>)

(* Further properties of run_protocol, checked under Spec *)

Successful == pc = "Done" /\ result # <<>>

\* C27: in every successful run, with s = len(sifted_key) and
\* k = int(s * check_sample_ratio), exactly k sifted bits are disclosed for
\* error checking, the error-checked key has s - k bits and key_length =
\* int((s - k) * 0.7); hence key_length <= s <= n_bits and
\* discarded_bits >= 0.
C27_KeyLengthAccounting ==
    Successful =>
        LET s == Len(result[1].sifted_key)
            k == IntOfProduct(s, check_sample_ratio)
        IN  /\ Len(check_indices) = k
            /\ Cardinality(Range(check_indices)) = k
            /\ Range(check_indices) \subseteq 0..(s - 1)
            /\ Len(alice_final) = s - k
            /\ Len(bob_final) = s - k
            /\ result[1].key_length = IntOfProduct(s - k, Double_0_7)
            /\ result[1].key_length <= s
            /\ s <= n_bits
            /\ result[1].discarded_bits >= 0

\* Three sifted bits, one of them disclosed, and a final key of one bit.
C27_Witness ==
    /\ Successful
    /\ Len(result[1].sifted_key) = 3
    /\ Len(check_indices) = 1
    /\ Len(alice_final) = 2
    /\ result[1].key_length = 1

Noiseless == noise_level = <<0, 1>> /\ Leq(<<0, 1>>, error_threshold)

\* The run ended at the security gate of lines 265-270.
SecurityAborted == "ErrorChecked" \in Range(visited) /\ "Aborted" \in Range(visited)

\* C28: in a run with noise_level = 0 Bob's sifted key equals Alice's
\* sifted key position by position, every estimated error rate is exactly
\* 0 and, for an error_threshold >= 0, the run never ends in a security
\* abort.
C28_NoiselessRunNeverAborts ==
    Noiseless =>
        /\ "Sifted" \in Range(visited) => bob_sifted = alice_sifted
        /\ ErrorRateKnown => error_rate[1] = 0
        /\ ~SecurityAborted

\* A noiseless run with the threshold 0 whose error rate was estimated on
\* a sifted key holding a 1, Bob having measured a bit Alice did not send.
C28_Witness ==
    /\ Noiseless
    /\ error_threshold = <<0, 1>>
    /\ pc = "Done"
    /\ result # <<>>
    /\ ErrorRateKnown
    /\ \E i \in 1..Len(alice_sifted) : alice_sifted[i] = 1
    /\ \E i \in 1..n_bits : bob_bits[i] # alice_bits[i]

\* The run with the arguments, Alice's bits and bases, Bob's bases and the
\* sampled indices of this run, and the draws d of measure_qubits.
RunWithDraws(d) ==
    run_protocol(n_bits, check_sample_ratio, error_threshold, alice_bits,
                 alice_bases, bob_bases, d, check_indices)

\* Bob's sifted key in that run
BobSiftedWithDraws(d) ==
    sift_keys(alice_bits, alice_bases, measure_qubits(qubits, bob_bases, d),
              bob_bases).bob_sifted

\* C29: two accepted runs with the same Alice bits, Alice bases, Bob bases
\* and sampled indices return the same raw_key, sifted_key, final_key,
\* key_length and discarded_bits whatever bits Bob measured.
C29_KeyIndependentOfBobBits ==
    Successful =>
        \A d \in BitSeqs(n_bits) :
            RunWithDraws(d).outcome = "Success" =>
                LET other == RunWithDraws(d).result[1]
                IN  /\ other.raw_key = result[1].raw_key
                    /\ other.sifted_key = result[1].sifted_key
                    /\ other.final_key = result[1].final_key
                    /\ other.key_length = result[1].key_length
                    /\ other.discarded_bits = result[1].discarded_bits

\* A run that returned a key of at least one bit, and an accepted run with
\* the same draws of Alice and of the sample in which Bob's sifted key is
\* another one.
C29_Witness ==
    /\ Successful
    /\ result[1].key_length > 0
    /\ \E d \in BitSeqs(n_bits) :
          /\ RunWithDraws(d).outcome = "Success"
          /\ BobSiftedWithDraws(d) # bob_sifted

(* Properties of BraketQKD.run_bb84, checked under SpecBraket *)

\* The positions at which Alice's and Bob's bases are equal
BraketSifted == {i \in 1..args.n_bits : ret.alice_bases[i] = ret.bob_bases[i]}

\* C30: with s the sifted length and k = s // 2, the error rate is the
\* fraction of mismatches among the sifted positions 0..k-1 and final_key
\* is Alice's sifted bits at the positions k..s-1 in order, so that
\* key_length = s - k; the run returns None when s = 0 or when the error
\* rate exceeds error_threshold, and never raises for any s >= 1.
C30_BraketKeyExcludesComparedBits ==
    pc = "return" =>
        LET s == Cardinality(BraketSifted)
            k == s \div 2
            alice == Pick(ret.alice_bits, BraketSifted)
            bob   == Pick(ret.bob_bits, BraketSifted)
            mismatches == Cardinality({i \in 1..k : alice[i] # bob[i]})
        IN  /\ s >= 1 => ret.outcome.raised = ""
            /\ s = 0 => ret.outcome = Return(<<>>)
            /\ (s >= 1 /\ mismatches * args.error_threshold[2]
                              > args.error_threshold[1] * k) =>
                   ret.outcome = Return(<<>>)
            /\ (ret.outcome.raised = "" /\ ret.outcome.value[1] # <<>>) =>
                   LET result_ == ret.outcome.value[1][1]
                   IN  /\ result_.error_rate = <<mismatches, k>>
                       /\ result_.final_key = [i \in 1..(s - k) |-> alice[k + i]]
                       /\ result_.key_length = s - k

====
